---------------------------- MODULE Spec2Model ----------------------------
(***************************************************************************)
(* A model of the line-protocol Tokenizer (src/unnamed/part_006): the      *)
(* buffered reader (ensure / readMore / take / takeEsc), the section state *)
(* machine (Next, Measurement, NextTag, NextFieldBytes, NextField,         *)
(* TimeBytes) and field-value parsing (ParseValue).                        *)
(*                                                                         *)
(* Bytes are one-character strings; Go's zero byte is NUL.  Indices are    *)
(* Go's (0-based); the TLA+ sequence holding an array is 1-based, so the   *)
(* byte at Go index i of an array a is a[i+1].                             *)
(***************************************************************************)
EXTENDS Integers, Sequences, FiniteSets, TLC

\* The zero byte, which at() returns beyond the buffered data.
NUL == "NUL"

\* A nil byte slice (distinct from an empty one).
NilBytes == <<"<nil>">>

(***************************************************************************)
(* Buffer growth constants.  The code uses minGrow = 8192; the model       *)
(* scales it down to 4 (minRead is still minGrow / 2) so that bounded      *)
(* inputs exercise growing and sliding of the buffer.                      *)
(***************************************************************************)
minGrow == 4

minRead == minGrow \div 2

(***************************************************************************)
(* byteSet: a 256-bit set.  Kept as a finite set with a complement flag,   *)
(* so that invert() needs no enumeration of all bytes.                     *)
(***************************************************************************)
newByteSet(S) == [neg |-> FALSE, s |-> S]

get(b, x) == IF b.neg THEN x \notin b.s ELSE x \in b.s

union(b, b1) ==
    CASE ~b.neg /\ ~b1.neg -> [neg |-> FALSE, s |-> b.s \cup b1.s]
      [] b.neg /\ b1.neg   -> [neg |-> TRUE, s |-> b.s \cap b1.s]
      [] b.neg /\ ~b1.neg  -> [neg |-> TRUE, s |-> b.s \ b1.s]
      [] OTHER             -> [neg |-> TRUE, s |-> b1.s \ b.s]

invert(b) == [neg |-> ~b.neg, s |-> b.s]

(***************************************************************************)
(* escaper.revTable: maps the byte that follows a backslash to the byte it *)
(* stands for, or to NUL when that byte is not escapable.  quoteByte is    *)
(* the letter Go's strconv.QuoteRune uses for a white-space byte.          *)
(***************************************************************************)
quoteByte(b) ==
    CASE b = "\t" -> "t"
      [] b = "\n" -> "n"
      [] b = "\r" -> "r"
      [] b = "\f" -> "f"
      [] OTHER    -> b

revTable(escapes, c) ==
    IF \E b \in escapes : quoteByte(b) = c
    THEN CHOOSE b \in escapes : quoteByte(b) = c
    ELSE NUL

\* fieldSeparatorSpace without the CR.
fieldSeparatorSpaceNoCR == newByteSet({" ", "\t", "\f"})

fieldSeparatorSpace == newByteSet({" ", "\t", "\r", "\f"})

whitespace == union(fieldSeparatorSpace, newByteSet({"\n"}))

measurementChars == invert(union(newByteSet({","}), whitespace))

measurementEscapes == {" ", ","}

tagKeyChars == invert(union(newByteSet({",", "="}), whitespace))

tagKeyEscapes == {",", "=", " "}

tagValChars == invert(union(newByteSet({",", "="}), whitespace))

tagValEscapes == {",", " ", "="}

fieldKeyChars == tagKeyChars

fieldKeyEscapes == tagKeyEscapes

\* fieldStringValChars without the LF: a string value ends at an LF too.
fieldStringValCharsNoLF == invert(newByteSet({"\"", "\n"}))

fieldStringValChars == invert(newByteSet({"\""}))

fieldStringValEscapes == {"\\", "\""}

fieldValChars == invert(union(newByteSet({","}), whitespace))

timeChars == newByteSet({"-", "0", "1", "2", "3", "4", "5", "6", "7", "8", "9"})

notNewline == invert(newByteSet({"\n"}))

\* Section: the tokenization sections of an entry, in order.
MeasurementSection == 0

TagSection == 1

FieldSection == 2

TimeSection == 3

newlineSection == 4

endSection == 5

\* ValueKind
Unknown == "Unknown"

String == "String"

IntKind == "Int"

Uint == "Uint"

Float == "Float"

Bool == "Bool"

(***************************************************************************)
(* Errors.  An error value has its message (text: the message parts) and   *)
(* the set of sentinel errors that errors.Is finds in its Unwrap chain.    *)
(***************************************************************************)
NoErr == [text |-> <<>>, is |-> {}]

NewError(msg) == [text |-> <<msg>>, is |-> {}]

ErrValueOutOfRange == [text |-> <<"line-protocol value out of range">>, is |-> {"ErrValueOutOfRange"}]

errorsIs(err, target) == \E x \in target.is : x \in err.is

Min(a, b) == IF a <= b THEN a ELSE b

\* With(v, F) is F(v): it names the value v inside F.
With(v, F(_)) == F(v)

(***************************************************************************)
(* The pull source (io.Reader).  data is everything the source will yield, *)
(* pos how much of it has been yielded, sizes the cyclic schedule of read  *)
(* sizes, and final how the source ends: "eof" (a last Read of 0 bytes     *)
(* with io.EOF, as strings.Reader), "dataeof" (the last bytes come with    *)
(* io.EOF, as iotest.DataErrReader), "err" (a non-EOF error instead of     *)
(* io.EOF, as the tests' errorReader) or "dataerr" (the last bytes come    *)
(* with the non-EOF error, as errorReader over a DataErrReader).  errs     *)
(* counts the Reads that have returned an error (io.EOF included).         *)
(***************************************************************************)
EOF == [text |-> <<"EOF">>, is |-> {"io.EOF"}]

someError == [text |-> <<"some error">>, is |-> {}]

\* The error a Read of n bytes returns when remaining bytes were left.
readErr(rd, n, remaining) ==
    CASE remaining = 0 /\ rd.final \in {"err", "dataerr"} -> someError
      [] remaining = 0 -> EOF
      [] rd.final = "dataeof" /\ n = remaining -> EOF
      [] rd.final = "dataerr" /\ n = remaining -> someError
      [] OTHER -> NoErr

\* Read into space bytes of room: the count, the bytes, the error, the source after.
Read(rd, space) ==
    With(Min(Min(rd.sizes[(rd.k % Len(rd.sizes)) + 1], Len(rd.data) - rd.pos), space),
         LAMBDA n :
           [n    |-> n,
            data |-> SubSeq(rd.data, rd.pos + 1, rd.pos + n),
            err  |-> readErr(rd, n, Len(rd.data) - rd.pos),
            rd   |-> [rd EXCEPT !.pos = @ + n, !.k = (@ + 1) % Len(rd.sizes),
                                !.errs = IF readErr(rd, n, Len(rd.data) - rd.pos) # NoErr
                                         THEN @ + 1 ELSE @]])

(***************************************************************************)
(* Tokenizer.  mem is the array under t.buf (cap(t.buf) = Len(mem), with   *)
(* whatever bytes lie beyond len(t.buf)), len is len(t.buf).  old holds    *)
(* the arrays that readMore has replaced since the current call began: a   *)
(* slice taken before a reallocation still points into one of them.        *)
(***************************************************************************)
cap(t) == Len(t.mem)

\* at returns the byte at i bytes after the current read position.
at(t, i) == IF t.r1 + i < t.len THEN t.mem[t.r1 + i + 1] ELSE NUL

\* reset discards all the data up to t.r1 and data in t.escBuf.
reset(t) ==
    IF t.r1 = t.len
    THEN [t EXCEPT !.len = 0, !.r1 = 0, !.r0 = 0, !.escBuf = <<>>]
    ELSE [t EXCEPT !.r0 = t.r1, !.escBuf = <<>>]

\* advance advances the read point by n.
advance(t, n) == [t EXCEPT !.r1 = @ + n]

\* readMore sliding the data from the read position on: the bytes taken
\* since the last reset are lost.
slideFromReadPoint(t) ==
    [t EXCEPT !.mem = [i \in 1..Len(t.mem) |->
                          IF i <= t.len - t.r1 THEN t.mem[i + t.r1] ELSE t.mem[i]],
              !.len = t.len - t.r1,
              !.r1 = 0,
              !.r0 = 0]

\* readMore, the branch that slides the live data to the front of the array.
slide(t) ==
    [t EXCEPT !.mem = [i \in 1..Len(t.mem) |->
                          IF i <= t.len - t.r0 THEN t.mem[i + t.r0] ELSE t.mem[i]],
              !.len = t.len - t.r0,
              !.r1 = t.r1 - t.r0,
              !.r0 = 0]

\* readMore, the size of the array that replaces a full one holding used bytes.
grownCap(t, used) ==
    IF cap(t) * 2 - used < minGrow THEN used + minGrow ELSE cap(t) * 2

\* readMore, the branch that allocates a larger array.
grow(t) ==
    [t EXCEPT !.mem = [i \in 1..grownCap(t, t.len - t.r0) |->
                          IF i <= t.len - t.r0 THEN t.mem[i + t.r0] ELSE NUL],
              !.old = Append(@, t.mem),
              !.len = t.len - t.r0,
              !.r1 = t.r1 - t.r0,
              !.r0 = 0]

\* readMore, making room: slide or grow when less than minRead bytes are free.
makeRoom(t) ==
    IF cap(t) - t.len < minRead
    THEN (IF t.r0 + (cap(t) - t.len) >= minRead THEN slide(t) ELSE grow(t))
    ELSE t

\* readInto without "t.err = err": the error of the Read is not kept.
readIntoForgetsError(t, r) ==
    [t EXCEPT !.mem = [i \in 1..Len(t.mem) |->
                          IF i > t.len /\ i <= t.len + r.n
                          THEN r.data[i - t.len] ELSE t.mem[i]],
              !.len = t.len + r.n,
              !.rd = r.rd,
              !.complete = r.err # NoErr]

\* readMore, t.rd.Read(t.buf[len(t.buf):cap(t.buf)]) and what follows it.
readInto(t, r) ==
    [t EXCEPT !.mem = [i \in 1..Len(t.mem) |->
                          IF i > t.len /\ i <= t.len + r.n
                          THEN r.data[i - t.len] ELSE t.mem[i]],
              !.len = t.len + r.n,
              !.rd = r.rd,
              !.complete = r.err # NoErr,
              !.err = IF r.err # NoErr /\ r.err # EOF THEN r.err ELSE @]

\* readMore reads more data into t.buf.
readMore(t) ==
    IF t.complete THEN t
    ELSE With(makeRoom(t), LAMBDA t1 : readInto(t1, Read(t1.rd, cap(t1) - t1.len)))

RECURSIVE ensure1(_, _)
\* ensure1 that reads once and takes the bytes to be there.
ensure1ReadsOnce(t, n) ==
    IF t.complete THEN [t |-> t, ok |-> FALSE] ELSE [t |-> readMore(t), ok |-> TRUE]

\* ensure1: read until n bytes are available beyond t.r1 or no more can come.
ensure1(t, n) ==
    IF t.complete THEN [t |-> t, ok |-> FALSE]
    ELSE With(readMore(t), LAMBDA t1 :
           IF t1.r1 + n <= t1.len THEN [t |-> t1, ok |-> TRUE]
           ELSE ensure1(t1, n))

\* ensure ensures that there are at least n bytes available in t.buf[t.r1:].
ensure(t, n) ==
    IF t.r1 + n <= t.len THEN [t |-> t, ok |-> TRUE] ELSE ensure1(t, n)

(***************************************************************************)
(* Byte slices handed out by take and takeEsc.  A slice of the input       *)
(* buffer is a window [lo, hi) of the array that was t.buf's when it was   *)
(* taken (g: how many arrays had been replaced by then); a slice of the    *)
(* escape buffer (esc) is only ever appended after, so it keeps its bytes. *)
(* val is what the slice held when it was taken; view is what it holds now.*)
(***************************************************************************)
mkSlice(t, lo, hi) ==
    [esc |-> FALSE, g |-> Len(t.old), lo |-> lo, hi |-> hi,
     val |-> SubSeq(t.mem, lo + 1, hi)]

escSlice(v) == [esc |-> TRUE, g |-> 0, lo |-> 0, hi |-> 0, val |-> v]

nilSlice == escSlice(NilBytes)

sliceLen(s) == IF s.val = NilBytes THEN 0 ELSE Len(s.val)

view(t, s) ==
    IF s.esc THEN s.val
    ELSE SubSeq(IF s.g = Len(t.old) THEN t.mem ELSE t.old[s.g + 1], s.lo + 1, s.hi)

RECURSIVE firstNotIn(_, _, _)
\* The first index i >= from of t.buf whose byte is not in set, or len(t.buf).
firstNotIn(t, set, from) ==
    IF from >= t.len \/ ~get(set, t.mem[from + 1]) THEN from
    ELSE firstNotIn(t, set, from + 1)

RECURSIVE takeLoop(_, _)
\* The loop of takeStats: advance t.r1 over bytes in set, reading as needed.
takeLoop(t, set) ==
    With(ensure(t, 1), LAMBDA e :
      IF ~e.ok THEN e.t
      ELSE With(firstNotIn(e.t, set, e.t.r1), LAMBDA i :
             IF i < e.t.len THEN [e.t EXCEPT !.r1 = i]
             ELSE takeLoop([e.t EXCEPT !.r1 = e.t.len], set)))

\* takeStats, given start, the offset from r0 at which the slice starts.
takeFrom(t, set, start) ==
    With(takeLoop(t, set), LAMBDA t1 :
      [t |-> t1, s |-> mkSlice(t1, t1.r0 + start, t1.r1)])

\* takeStats with an absolute index for the start of the slice.
takeStatsAbsoluteStart(t, set) ==
    With(takeLoop(t, set), LAMBDA t1 : [t |-> t1, s |-> mkSlice(t1, t.r1, t1.r1)])

\* takeStats returns the next slice of bytes that are in the given set.
takeStats(t, set) == takeFrom(t, set, t.r1 - t.r0)

take(t, set) == takeStats(t, set)

takeFieldSpace(t) == takeStats(t, fieldSeparatorSpace).t

RECURSIVE escScan(_, _, _, _, _, _)
RECURSIVE escPair(_, _, _, _, _, _, _)
(***************************************************************************)
(* The inner loop of takeEscStats over buf = t.buf[t.r1:], of length n,    *)
(* from index i; su is startUnesc.  done tells whether the end of the run  *)
(* was found (break outer) or the buffered bytes were all consumed.        *)
(***************************************************************************)
escScan(t, set, escapes, i, n, su) ==
    IF i >= n THEN [t |-> [t EXCEPT !.r1 = @ + n], su |-> su, done |-> FALSE]
    ELSE IF t.mem[t.r1 + i + 1] # "\\" THEN
      IF ~get(set, t.mem[t.r1 + i + 1])
      THEN [t |-> [t EXCEPT !.r1 = @ + i], su |-> su, done |-> TRUE]
      ELSE escScan(t, set, escapes, i + 1, n, su)
    ELSE IF i + 1 >= n
    THEN With(ensure(t, i + 2), LAMBDA e :
           IF ~e.ok
           THEN [t |-> [e.t EXCEPT !.r1 = e.t.len], su |-> su, done |-> TRUE]
           ELSE escPair(e.t, set, escapes, i, e.t.len - e.t.r1, su,
                        revTable(escapes, e.t.mem[e.t.r1 + i + 2])))
    ELSE escPair(t, set, escapes, i, n, su, revTable(escapes, t.mem[t.r1 + i + 2]))

\* escPair that passes over the byte after a backslash whatever it is.
escPairPassesNext(t, set, escapes, i, n, su, replc) ==
    IF replc = NUL \/ t.skipping THEN escScan(t, set, escapes, i + 2, n, su)
    ELSE escScan([t EXCEPT !.escBuf = @ \o SubSeq(t.mem, t.r0 + su + 1, t.r1 + i)
                                        \o <<replc>>],
                 set, escapes, i + 2, n, t.r1 - t.r0 + i + 2)

\* The inner loop at a backslash at index i whose next byte stands for replc.
escPair(t, set, escapes, i, n, su, replc) ==
    IF replc = NUL THEN escScan(t, set, escapes, i + 1, n, su)
    ELSE IF ~t.skipping
    THEN escScan([t EXCEPT !.escBuf = @ \o SubSeq(t.mem, t.r0 + su + 1, t.r1 + i)
                                        \o <<replc>>],
                 set, escapes, i + 2, n, t.r1 - t.r0 + i + 2)
    ELSE escScan(t, set, escapes, i + 2, n, su)

RECURSIVE escLoop(_, _, _, _)
\* The outer loop of takeEscStats.
escLoop(t, set, escapes, su) ==
    With(ensure(t, 1), LAMBDA e :
      IF ~e.ok THEN [t |-> e.t, su |-> su]
      ELSE With(escScan(e.t, set, escapes, 0, e.t.len - e.t.r1, su), LAMBDA r :
             IF r.done THEN [t |-> r.t, su |-> r.su]
             ELSE escLoop(r.t, set, escapes, r.su)))

\* takeEscStats, the end: the unescaped bytes if any were made, else the slice.
escResult(t, su, start, startEsc) ==
    IF Len(t.escBuf) > startEsc
    THEN With(t.escBuf \o SubSeq(t.mem, su + t.r0 + 1, t.r1), LAMBDA eb :
           [t |-> [t EXCEPT !.escBuf = eb],
            s |-> escSlice(SubSeq(eb, startEsc + 1, Len(eb)))])
    ELSE [t |-> t, s |-> mkSlice(t, t.r0 + start, t.r1)]

(***************************************************************************)
(* takeEscStats is like take except that escaped characters also count as  *)
(* part of the set.  It returns the unescaped string unless t.skipping.    *)
(***************************************************************************)
takeEscStats(t, set, escapes) ==
    With(escLoop(t, set, escapes, t.r1 - t.r0), LAMBDA r :
      escResult(r.t, r.su, t.r1 - t.r0, Len(t.escBuf)))

takeEsc(t, set, escapes) == takeEscStats(t, set, escapes)

takeEscUnquotedStats(t, set, escapes) == takeEscStats(t, set, escapes)

(***************************************************************************)
(* The section state machine.  Each method yields the tokenizer after the  *)
(* call and what it returns: key and val are slices, err an error (NoErr   *)
(* for nil).  The methods call each other through advanceToSection and     *)
(* consumeSection, as in the code.                                         *)
(***************************************************************************)
ret(t, key, kind, val, err) ==
    [t |-> t, key |-> key, kind |-> kind, val |-> val, err |-> err]

\* The result of a method that returns only nils and r.err.
fail(r) == ret(r.t, nilSlice, Unknown, nilSlice, r.err)

\* fmt.Errorf(f, a...): the message is the format and the formatted arguments.
Errorf(f, a) == [text |-> <<f>> \o a, is |-> {}]

\* syntaxErrorf without the recovery: the section is left as it is.
syntaxErrorfNoRecovery(t, f, a) == [t |-> t, err |-> Errorf(f, a)]

\* syntaxErrorf: recover from a syntax error by reading up to the next newline.
syntaxErrorf(t, f, a) == [t |-> [t EXCEPT !.section = newlineSection], err |-> Errorf(f, a)]

\* consumeLine that advances over a newline byte without ensuring that there is one.
consumeLineUnensured(t) ==
    [advance(reset(take(t, notNewline).t), 1) EXCEPT !.section = endSection]

\* consumeLine consumes an entire line.
consumeLine(t) ==
    With(ensure(reset(take(t, notNewline).t), 1), LAMBDA e :
      [(IF e.ok THEN advance(e.t, 1) ELSE e.t) EXCEPT !.section = endSection])

RECURSIVE skipEmptyLines(_)
RECURSIVE skipComment(_)
\* skipEmptyLines without the case '#': comment lines are not skipped.
skipBlankLinesOnly(t) ==
    With(takeFieldSpace(t), LAMBDA t1 :
      IF at(t1, 0) = "\n" THEN skipEmptyLines(advance(t1, 1)) ELSE t1)

\* skipEmptyLines skips blank lines and comment lines.
skipEmptyLines(t) ==
    With(takeFieldSpace(t), LAMBDA t1 :
      CASE at(t1, 0) = "#" -> skipComment(take(t1, notNewline).t)
        [] at(t1, 0) = "\n" -> skipEmptyLines(advance(t1, 1))
        [] OTHER -> t1)

\* skipEmptyLines, after the text of a comment.
skipComment(t) == IF at(t, 0) # "\n" THEN t ELSE skipEmptyLines(advance(t, 1))

\* afterComma without the checks: whatever follows the comma is accepted.
afterCommaUnchecked(e) == [t |-> e.t, err |-> NoErr]

\* advanceTagComma, after the comma.
afterComma(e) ==
    IF ~e.ok
    THEN syntaxErrorf(e.t, "expected tag key after comma; got end of input", <<>>)
    ELSE IF get(whitespace, at(e.t, 0))
    THEN syntaxErrorf(e.t, "expected tag key after comma; got white space instead", <<>>)
    ELSE [t |-> e.t, err |-> NoErr]

\* advanceTagComma consumes a comma after a measurement or a tag value,
\* making sure it's not followed by whitespace.
advanceTagComma(t) ==
    With(ensure(t, 1), LAMBDA e :
      IF ~e.ok \/ at(e.t, 0) # "," THEN [t |-> e.t, err |-> NoErr]
      ELSE afterComma(ensure(advance(e.t, 1), 1)))

RECURSIVE advanceToSection(_, _)
RECURSIVE advanceLoop(_, _)
RECURSIVE consumeSection(_)
RECURSIVE consumeTags(_)
RECURSIVE consumeFields(_)
RECURSIVE Measurement(_)
RECURSIVE NextTag(_)
RECURSIVE NextFieldBytes(_)
RECURSIVE TimeBytes(_)

\* advanceLoop without "t.skipping = false" once the section is reached.
advanceLoopStaysSkipping(t, section) ==
    IF t.section >= section THEN [t |-> t, ok |-> TRUE, err |-> NoErr]
    ELSE With(consumeSection(t), LAMBDA c :
           IF c.err # NoErr
           THEN [t |-> [c.t EXCEPT !.skipping = FALSE], ok |-> FALSE, err |-> c.err]
           ELSE advanceLoop(c.t, section))

\* advanceToSection, the loop that consumes sections in skipping mode.
advanceLoop(t, section) ==
    IF t.section >= section
    THEN [t |-> [t EXCEPT !.skipping = FALSE], ok |-> TRUE, err |-> NoErr]
    ELSE With(consumeSection(t), LAMBDA c :
           IF c.err # NoErr
           THEN [t |-> [c.t EXCEPT !.skipping = FALSE], ok |-> FALSE, err |-> c.err]
           ELSE advanceLoop(c.t, section))

\* advanceToSection that takes a section already passed for the one asked for.
advanceToSectionAgain(t, section) ==
    IF t.section >= section THEN [t |-> t, ok |-> TRUE, err |-> NoErr]
    ELSE advanceLoop([t EXCEPT !.skipping = TRUE], section)

\* advanceToSection moves on to the given section, and tells whether the
\* tokenizer is there: it is not when it has passed the section already.
advanceToSection(t, section) ==
    IF t.section = section THEN [t |-> t, ok |-> TRUE, err |-> NoErr]
    ELSE IF t.section > section THEN [t |-> t, ok |-> FALSE, err |-> NoErr]
    ELSE advanceLoop([t EXCEPT !.skipping = TRUE], section)

\* consumeSection, case TagSection: NextTag until an error or a nil key.
consumeTags(t) ==
    With(NextTag(t), LAMBDA r :
      IF r.err # NoErr \/ r.key = nilSlice THEN [t |-> r.t, err |-> r.err]
      ELSE consumeTags(r.t))

\* consumeSection, case FieldSection: NextFieldBytes until an error or a nil key.
consumeFields(t) ==
    With(NextFieldBytes(t), LAMBDA r :
      IF r.err # NoErr \/ r.key = nilSlice THEN [t |-> r.t, err |-> r.err]
      ELSE consumeFields(r.t))

consumeSection(t) ==
    CASE t.section = MeasurementSection ->
           With(Measurement(t), LAMBDA r : [t |-> r.t, err |-> r.err])
      [] t.section = TagSection -> consumeTags(t)
      [] t.section = FieldSection -> consumeFields(t)
      [] t.section = TimeSection ->
           With(TimeBytes(t), LAMBDA r : [t |-> r.t, err |-> r.err])
      [] t.section = newlineSection -> [t |-> consumeLine(t), err |-> NoErr]
      [] OTHER -> [t |-> t, err |-> NoErr]

\* What a section method returns when advanceToSection did not reach its
\* section: the error, or all nils.
notReached(a) == ret(a.t, nilSlice, Unknown, nilSlice, a.err)

\* Measurement, once the measurement name has been taken.
measurementTaken(m) ==
    IF sliceLen(m.s) = 0
    THEN fail(syntaxErrorf(m.t, "no measurement name found", <<>>))
    ELSE With(advanceTagComma(m.t), LAMBDA c :
           IF c.err # NoErr THEN fail(c)
           ELSE ret([c.t EXCEPT !.section = TagSection], m.s, Unknown, nilSlice, NoErr))

\* Measurement returns the measurement name (in key).
Measurement(t) ==
    With(advanceToSection(t, MeasurementSection), LAMBDA a :
      IF a.err # NoErr \/ ~a.ok THEN notReached(a)
      ELSE measurementTaken(takeEscUnquotedStats(reset(skipEmptyLines(a.t)),
                                                 measurementChars, measurementEscapes)))

\* tagValTaken that takes the end of the input after a tag value for an error.
tagValTakenNeedsMore(tagKey, v) ==
    IF sliceLen(v.s) = 0
    THEN fail(syntaxErrorf(v.t, "expected tag value after tag key %q, but none found",
                           view(v.t, tagKey)))
    ELSE With(ensure(v.t, 1), LAMBDA e :
           IF ~e.ok
           THEN fail(syntaxErrorf(e.t, "expected field key but none found", <<>>))
           ELSE With(advanceTagComma(e.t), LAMBDA c :
                  IF c.err # NoErr THEN fail(c)
                  ELSE ret(c.t, tagKey, Unknown, v.s, NoErr)))

\* NextTag, once the tag value has been taken.
tagValTaken(tagKey, v) ==
    IF sliceLen(v.s) = 0
    THEN fail(syntaxErrorf(v.t, "expected tag value after tag key %q, but none found",
                           view(v.t, tagKey)))
    ELSE With(ensure(v.t, 1), LAMBDA e :
           IF ~e.ok
           THEN ret([e.t EXCEPT !.section = FieldSection], tagKey, Unknown, v.s, NoErr)
           ELSE With(advanceTagComma(e.t), LAMBDA c :
                  IF c.err # NoErr THEN fail(c)
                  ELSE ret(c.t, tagKey, Unknown, v.s, NoErr)))

\* NextTag, once the tag key has been taken.
tagKeyTaken(k) ==
    IF sliceLen(k.s) = 0 THEN fail(syntaxErrorf(k.t, "empty tag name", <<>>))
    ELSE With(ensure(k.t, 1), LAMBDA e :
           IF ~e.ok \/ at(e.t, 0) # "="
           THEN fail(syntaxErrorf(e.t, "expected '=' after tag key %q, but got %q instead",
                                  view(e.t, k.s) \o <<at(e.t, 0)>>))
           ELSE tagValTaken(k.s, takeEscUnquotedStats(advance(e.t, 1),
                                                      tagValChars, tagValEscapes)))

\* NextTag returns the next tag in the entry, or nil, nil, nil.
NextTag(t) ==
    With(advanceToSection(t, TagSection), LAMBDA a :
      IF a.err # NoErr \/ ~a.ok THEN notReached(a)
      ELSE With(ensure(a.t, 1), LAMBDA e :
             IF e.ok /\ get(fieldSeparatorSpace, at(e.t, 0))
             THEN ret([takeFieldSpace(e.t) EXCEPT !.section = FieldSection],
                      nilSlice, Unknown, nilSlice, NoErr)
             ELSE tagKeyTaken(takeEscUnquotedStats(e.t, tagKeyChars, tagKeyEscapes))))

\* fieldVal[:len(fieldVal)-1]
dropLast(s) == [s EXCEPT !.hi = @ - 1, !.val = SubSeq(@, 1, Len(@) - 1)]

\* NextFieldBytes, the numeric case: the kind is told by the last byte.
numberTaken(f) ==
    CASE f.s.val[Len(f.s.val)] = "i" -> [t |-> f.t, s |-> dropLast(f.s), kind |-> IntKind, err |-> NoErr]
      [] f.s.val[Len(f.s.val)] = "u" -> [t |-> f.t, s |-> dropLast(f.s), kind |-> Uint, err |-> NoErr]
      [] OTHER -> [t |-> f.t, s |-> f.s, kind |-> Float, err |-> NoErr]

\* NextFieldBytes, the quoted case, once the text up to the closing quote is taken.
stringTaken(f) ==
    With(ensure(f.t, 1), LAMBDA e :
      IF ~e.ok
      THEN With(syntaxErrorf(e.t, "expected closing quote for string field value, found end of input", <<>>),
                LAMBDA x : [t |-> x.t, s |-> nilSlice, kind |-> Unknown, err |-> x.err])
      ELSE IF at(e.t, 0) # "\""
      THEN With(syntaxErrorf(e.t, "unexpected string termination", <<>>),
                LAMBDA x : [t |-> x.t, s |-> nilSlice, kind |-> Unknown, err |-> x.err])
      ELSE [t |-> advance(e.t, 1), s |-> f.s, kind |-> String, err |-> NoErr])

\* NextFieldBytes, the switch on the first byte of the field value.
fieldValue(t) ==
    CASE at(t, 0) = "\"" ->
           stringTaken(takeEscStats(advance(t, 1), fieldStringValChars, fieldStringValEscapes))
      [] at(t, 0) \in {"t", "T", "f", "F"} ->
           With(take(t, fieldValChars), LAMBDA f :
             [t |-> f.t, s |-> f.s, kind |-> Bool, err |-> NoErr])
      [] at(t, 0) \in {"-", "0", "1", "2", "3", "4", "5", "6", "7", "8", "9", "."} ->
           numberTaken(take(t, fieldValChars))
      [] OTHER ->
           With(take(t, fieldValChars), LAMBDA f :
             [t |-> f.t, s |-> f.s, kind |-> Unknown, err |-> NoErr])

\* NextFieldBytes, after the field space that follows a field value.
afterFieldSpace(e, fieldKey, v) ==
    IF ~e.ok \/ at(e.t, 0) = "\n"
    THEN ret([e.t EXCEPT !.section = endSection], fieldKey, v.kind, v.s, NoErr)
    ELSE ret([e.t EXCEPT !.section = TimeSection], fieldKey, v.kind, v.s, NoErr)

\* NextFieldBytes, once the field value v has been taken.
fieldValTaken(fieldKey, v) ==
    IF v.err # NoErr THEN fail(v)
    ELSE With(ensure(v.t, 1), LAMBDA e :
           IF ~e.ok
           THEN ret([e.t EXCEPT !.section = endSection], fieldKey, v.kind, v.s, NoErr)
           ELSE IF at(e.t, 0) = ","
           THEN ret(advance(e.t, 1), fieldKey, v.kind, v.s, NoErr)
           ELSE IF ~get(whitespace, at(e.t, 0))
           THEN fail(syntaxErrorf(e.t, "unexpected character %q after field", <<at(e.t, 0)>>))
           ELSE afterFieldSpace(ensure(takeFieldSpace(e.t), 1), fieldKey, v))

\* NextFieldBytes, after the '=' that follows the field key.
afterFieldEq(e, fieldKey) ==
    IF ~e.ok
    THEN fail(syntaxErrorf(e.t, "expected field value, found end of input", <<>>))
    ELSE fieldValTaken(fieldKey, fieldValue(e.t))

\* NextFieldBytes, once the field key has been taken.
fieldKeyTaken(k) ==
    IF sliceLen(k.s) = 0
    THEN fail(syntaxErrorf(k.t, "expected field key but none found", <<>>))
    ELSE With(ensure(k.t, 1), LAMBDA e :
           IF ~e.ok
           THEN fail(syntaxErrorf(e.t, "want '=' after field key %q, found end of input",
                                  view(e.t, k.s)))
           ELSE IF at(e.t, 0) # "="
           THEN fail(syntaxErrorf(e.t, "want '=' after field key %q, found %q",
                                  view(e.t, k.s) \o <<at(e.t, 0)>>))
           ELSE afterFieldEq(ensure(advance(e.t, 1), 1), k.s))

\* NextFieldBytes returns the next field in the entry, or all zero values.
NextFieldBytes(t) ==
    With(advanceToSection(t, FieldSection), LAMBDA a :
      IF a.err # NoErr \/ ~a.ok THEN notReached(a)
      ELSE fieldKeyTaken(takeEscUnquotedStats(a.t, fieldKeyChars, fieldKeyEscapes)))

\* TimeBytes that starts the next entry itself once it has passed the newline.
afterTimeSpaceStartsEntry(e, timeBytes) ==
    IF ~e.ok
    THEN ret([e.t EXCEPT !.section = endSection], nilSlice, Unknown, timeBytes, NoErr)
    ELSE IF at(e.t, 0) # "\n"
    THEN With(take(e.t, notNewline), LAMBDA x :
           fail(syntaxErrorf(x.t, "unexpected text after timestamp (%q)", x.s.val)))
    ELSE ret([advance(e.t, 1) EXCEPT !.section = MeasurementSection],
             nilSlice, Unknown, timeBytes, NoErr)

\* TimeBytes, after the field space that follows the timestamp.
afterTimeSpace(e, timeBytes) ==
    IF ~e.ok
    THEN ret([e.t EXCEPT !.section = endSection], nilSlice, Unknown, timeBytes, NoErr)
    ELSE IF at(e.t, 0) # "\n"
    THEN With(take(e.t, notNewline), LAMBDA x :
           fail(syntaxErrorf(x.t, "unexpected text after timestamp (%q)", x.s.val)))
    ELSE ret([advance(e.t, 1) EXCEPT !.section = endSection],
             nilSlice, Unknown, timeBytes, NoErr)

\* TimeBytes, once the timestamp has been taken; start is its offset from r0.
timeTaken(t, timeBytes, start) ==
    With(ensure(t, 1), LAMBDA e :
      IF ~e.ok
      THEN ret([e.t EXCEPT !.section = endSection], nilSlice, Unknown, timeBytes, NoErr)
      ELSE IF ~get(whitespace, at(e.t, 0))
      THEN With(take(e.t, notNewline).t, LAMBDA t1 :
             fail(syntaxErrorf(t1, "invalid timestamp (%q)",
                               SubSeq(t1.mem, t1.r0 + start + 1, t1.r1))))
      ELSE afterTimeSpace(ensure(takeFieldSpace(e.t), 1), timeBytes))

\* TimeBytes returns the timestamp of the entry (in val), or nil, nil.
TimeBytes(t) ==
    With(advanceToSection(t, TimeSection), LAMBDA a :
      IF a.err # NoErr \/ ~a.ok THEN notReached(a)
      ELSE With(take(a.t, timeChars), LAMBDA x :
             IF sliceLen(x.s) = 0
             THEN timeTaken([x.t EXCEPT !.section = endSection], nilSlice, a.t.r1 - a.t.r0)
             ELSE timeTaken(x.t, x.s, a.t.r1 - a.t.r0)))

\* Next, after advanceToSection(endSection) has returned a; its error is dropped.
nextFrom(a) ==
    ensure(reset([skipEmptyLines(a.t) EXCEPT !.section = MeasurementSection]), 1)

\* Next advances to the next entry, and reports whether there is an entry
\* available.
TokenizerNext(t) == nextFrom(advanceToSection(t, endSection))

\* Err returns any I/O error encountered when reading tokens.
Err(t) == t.err

(***************************************************************************)
(* Field values.  The number parsers (thin wrappers of Go's strconv) tell  *)
(* "ok", "syntax" (strconv.ErrSyntax) or "range" (strconv.ErrRange);       *)
(* parseFloatBytes also tells "nonnumber" for an infinity or a NaN.        *)
(* Magnitudes are compared as decimal digit strings: 64-bit values do not  *)
(* fit the model checker's integers.                                       *)
(***************************************************************************)
Digits == <<"0", "1", "2", "3", "4", "5", "6", "7", "8", "9">>

isDigit(c) == \E i \in 1..Len(Digits) : Digits[i] = c

digitVal(c) == (CHOOSE i \in 1..Len(Digits) : Digits[i] = c) - 1

isDigits(d) == Len(d) > 0 /\ \A i \in 1..Len(d) : isDigit(d[i])

RECURSIVE stripZeros(_)
stripZeros(d) == IF Len(d) > 1 /\ d[1] = "0" THEN stripZeros(Tail(d)) ELSE d

\* a > b, for digit strings without leading zeros.
gtDigits(a, b) ==
    \/ Len(a) > Len(b)
    \/ /\ Len(a) = Len(b)
       /\ \E i \in 1..Len(a) :
            /\ \A j \in 1..(i - 1) : a[j] = b[j]
            /\ digitVal(a[i]) > digitVal(b[i])

MaxInt64 == <<"9", "2", "2", "3", "3", "7", "2", "0", "3", "6", "8", "5", "4", "7", "7", "5", "8", "0", "7">>

MinInt64Magnitude == <<"9", "2", "2", "3", "3", "7", "2", "0", "3", "6", "8", "5", "4", "7", "7", "5", "8", "0", "8">>

MaxUint64 == <<"1", "8", "4", "4", "6", "7", "4", "4", "0", "7", "3", "7", "0", "9", "5", "5", "1", "6", "1", "5">>

MaxFloatExp == <<"3", "0", "8">>

hasSign(data) == Len(data) > 0 /\ data[1] \in {"-", "+"}

unsigned(data) == IF hasSign(data) THEN Tail(data) ELSE data

isNeg(data) == Len(data) > 0 /\ data[1] = "-"

parseIntBytes(data) ==
    IF ~isDigits(unsigned(data)) THEN "syntax"
    ELSE IF gtDigits(stripZeros(unsigned(data)),
                     IF isNeg(data) THEN MinInt64Magnitude ELSE MaxInt64) THEN "range"
    ELSE "ok"

parseUintBytes(data) ==
    IF ~isDigits(data) THEN "syntax"
    ELSE IF gtDigits(stripZeros(data), MaxUint64) THEN "range"
    ELSE "ok"

\* The index of the first byte of data that is in S, or Len(data) + 1.
indexOf(data, S) ==
    IF \E i \in 1..Len(data) : data[i] \in S
    THEN CHOOSE i \in 1..Len(data) : data[i] \in S /\ \A j \in 1..(i - 1) : data[j] \notin S
    ELSE Len(data) + 1

\* A mantissa digits [. digits] with at least one digit.
mantissaOk(mant, dot) ==
    /\ Len(mant) > (IF dot <= Len(mant) THEN 1 ELSE 0)
    /\ \A i \in 1..Len(mant) : i # dot => isDigit(mant[i])

\* The spellings of infinities and NaN, in the letter cases the model uses.
nonNumbers ==
    {<<"i", "n", "f">>, <<"I", "n", "f">>, <<"I", "N", "F">>,
     <<"n", "a", "n">>, <<"N", "a", "N">>, <<"N", "A", "N">>}

\* parseFloatBytes, for the unsigned text d whose exponent mark is at ePos.
floatParts(d, ePos) ==
    IF d \in nonNumbers THEN "nonnumber"
    ELSE IF ~mantissaOk(SubSeq(d, 1, ePos - 1), indexOf(SubSeq(d, 1, ePos - 1), {"."}))
    THEN "syntax"
    ELSE IF ePos > Len(d) THEN "ok"
    ELSE IF ~isDigits(unsigned(SubSeq(d, ePos + 1, Len(d)))) THEN "syntax"
    ELSE IF /\ ~isNeg(SubSeq(d, ePos + 1, Len(d)))
            /\ \E i \in 1..(ePos - 1) : d[i] \notin {"0", "."}
            /\ gtDigits(stripZeros(unsigned(SubSeq(d, ePos + 1, Len(d)))), MaxFloatExp)
    THEN "range"
    ELSE "ok"

(***************************************************************************)
(* parseFloatBytes, for decimal floats [sign] digits [. digits] [e [sign]  *)
(* digits]: a non-zero mantissa with a decimal exponent above 308 is out   *)
(* of range.                                                               *)
(***************************************************************************)
parseFloatBytes(data) == floatParts(unsigned(data), indexOf(unsigned(data), {"e", "E"}))

parseBoolBytes(data) ==
    IF data \in {<<"t">>, <<"T">>, <<"t", "r", "u", "e">>, <<"T", "r", "u", "e">>,
                 <<"T", "R", "U", "E">>, <<"f">>, <<"F">>, <<"f", "a", "l", "s", "e">>,
                 <<"F", "a", "l", "s", "e">>, <<"F", "A", "L", "S", "E">>}
    THEN "ok" ELSE "syntax"

\* maybeOutOfRange: the sentinel for strconv.ErrRange, else a new error with message s.
maybeOutOfRange(res, s) == IF res = "range" THEN ErrValueOutOfRange ELSE NewError(s)

\* A Value: its kind and the bytes it was parsed from; NoValue is Value{}.
NoValue == [kind |-> Unknown, data |-> NilBytes]

\* ParseValue, given the outcome res of the number parser for the kind.
numberValue(kind, data, res, s) ==
    IF res = "nonnumber"
    THEN [v |-> NoValue,
          err |-> Errorf("non-number %q cannot be represented as a line-protocol field value", data)]
    ELSE IF res # "ok" THEN [v |-> NoValue, err |-> maybeOutOfRange(res, s)]
    ELSE [v |-> [kind |-> kind, data |-> data], err |-> NoErr]

\* ParseValue parses the data as a value of the given kind.
ParseValue(kind, data) ==
    CASE kind = IntKind ->
           numberValue(kind, data, parseIntBytes(data), "invalid integer value syntax")
      [] kind = Uint ->
           numberValue(kind, data, parseUintBytes(data), "invalid unsigned integer value syntax")
      [] kind = Float ->
           numberValue(kind, data, parseFloatBytes(data), "invalid float value syntax")
      [] kind = Bool ->
           IF parseBoolBytes(data) # "ok"
           THEN [v |-> NoValue, err |-> Errorf("invalid bool value %q", data)]
           ELSE [v |-> [kind |-> kind, data |-> data], err |-> NoErr]
      [] kind = String -> [v |-> [kind |-> kind, data |-> data], err |-> NoErr]
      [] OTHER -> [v |-> NoValue, err |-> Errorf("cannot parse value %q with unknown kind", data)]

\* NextField, once NextFieldBytes has returned r and its value was parsed as p.
fieldParsed(r, p) ==
    IF p.err # NoErr
    THEN [t |-> r.t, key |-> nilSlice, kind |-> Unknown, val |-> nilSlice, v |-> NoValue,
          err |-> Errorf("cannot parse value for field key %q: %v",
                         view(r.t, r.key) \o p.err.text),
          perr |-> p.err]
    ELSE [t |-> r.t, key |-> r.key, kind |-> r.kind, val |-> r.val, v |-> p.v, err |-> NoErr,
          perr |-> NoErr]

\* NextField is a wrapper around NextFieldBytes that parses the field value.
NextField(t) ==
    With(NextFieldBytes(t), LAMBDA r :
      IF r.err # NoErr \/ r.key = nilSlice
      THEN [t |-> r.t, key |-> nilSlice, kind |-> Unknown, val |-> nilSlice, v |-> NoValue,
            err |-> r.err, perr |-> NoErr]
      ELSE fieldParsed(r, ParseValue(r.kind, view(r.t, r.val))))

(***************************************************************************)
(* Timestamps.  A time.Time is [ns |-> n], n being the nanoseconds since   *)
(* the Unix epoch: an integer for a default time, and a sign and a decimal *)
(* magnitude for a parsed timestamp, which may need all 64 bits.           *)
(***************************************************************************)
\* Precision
Nanosecond == 0

Microsecond == 1

Millisecond == 2

Second == 3

\* Duration returns the time duration for the given precision, in nanoseconds.
Duration(p) ==
    CASE p = Nanosecond -> 1
      [] p = Microsecond -> 1000
      [] p = Millisecond -> 1000000
      [] p = Second -> 1000000000

\* Precision.String
precString(p) ==
    CASE p = Nanosecond -> "ns"
      [] p = Microsecond -> "µs"
      [] p = Millisecond -> "ms"
      [] p = Second -> "s"

\* The zero time.Time.
zeroTime == [ns |-> "zero"]

\* The int64 that parseIntBytes makes of data: its sign and magnitude.
intOf(data) ==
    [neg |-> isNeg(data) /\ stripZeros(unsigned(data)) # <<"0">>,
     mag |-> stripZeros(unsigned(data))]

\* The decimal digits of Duration(p) after its leading 1.
durationZeros(p) == [i \in 1..(3 * p) |-> "0"]

(***************************************************************************)
(* The arithmetic of int64.  The 64 bits of an integer are four limbs of   *)
(* 16 bits, the least significant first; a negative integer is the two's   *)
(* complement of its magnitude.                                            *)
(***************************************************************************)
Limb == 65536

zeroLimbs == <<0, 0, 0, 0>>

\* u * m + a in as many limbs as u has, the bits above them lost (m, a < 2^15).
RECURSIVE mulAdd(_, _, _)
mulAdd(u, m, a) ==
    IF u = <<>> THEN <<>>
    ELSE <<(u[1] * m + a) % Limb>> \o mulAdd(Tail(u), m, (u[1] * m + a) \div Limb)

\* The remainder by m of the limbs of u from the i-th up (m < 2^15).
RECURSIVE remFrom(_, _, _)
remFrom(u, m, i) == IF i > Len(u) THEN 0 ELSE (remFrom(u, m, i + 1) * Limb + u[i]) % m

\* The quotient of the unsigned u by m.
quoSmall(u, m) == [i \in 1..Len(u) |-> (remFrom(u, m, i + 1) * Limb + u[i]) \div m]

\* -u in two's complement.
negLimbs(u) == mulAdd([i \in 1..Len(u) |-> (Limb - 1) - u[i]], 1, 1)

\* The sign bit of u.
negative(u) == u[Len(u)] >= Limb \div 2

\* The unsigned integer that the decimal digits d spell, from acc on.
RECURSIVE limbsOfDigits(_, _)
limbsOfDigits(d, acc) ==
    IF d = <<>> THEN acc ELSE limbsOfDigits(Tail(d), mulAdd(acc, 10, digitVal(d[1])))

\* The decimal digits of the unsigned u.
RECURSIVE digitsOfLimbs(_)
digitsOfLimbs(u) ==
    IF u = zeroLimbs THEN <<>>
    ELSE digitsOfLimbs(quoSmall(u, 10)) \o <<Digits[remFrom(u, 10, 1) + 1]>>

\* The 64 bits of the int64 x, given as its sign and decimal magnitude.
limbsOf(x) ==
    IF x.neg THEN negLimbs(limbsOfDigits(x.mag, zeroLimbs)) ELSE limbsOfDigits(x.mag, zeroLimbs)

\* The int64 that the 64 bits u are, as its sign and decimal magnitude.
int64Of(u) ==
    With(digitsOfLimbs(IF negative(u) THEN negLimbs(u) ELSE u), LAMBDA mag :
      [neg |-> negative(u), mag |-> IF mag = <<>> THEN <<"0">> ELSE mag])

\* u * d in 64 bits, for d a power of 1000.
RECURSIVE timesLimbs(_, _)
timesLimbs(u, d) == IF d = 1 THEN u ELSE timesLimbs(mulAdd(u, 1000, 0), d \div 1000)

\* The zeros of the power of ten d.
RECURSIVE zerosOf(_)
zerosOf(d) == IF d = 1 THEN <<>> ELSE <<"0">> \o zerosOf(d \div 10)

\* x * d of two int64, d a power of 1000: the product when it is an int64,
\* and else the int64 that its low 64 bits are.
mul64(x, d) ==
    With(stripZeros(x.mag \o zerosOf(d)), LAMBDA mag :
      IF ~gtDigits(mag, IF x.neg THEN MinInt64Magnitude ELSE MaxInt64)
      THEN [neg |-> x.neg /\ mag # <<"0">>, mag |-> mag]
      ELSE int64Of(timesLimbs(limbsOf(x), d)))

\* c / d of two int64, d a power of ten: the quotient truncated towards zero.
quo64(c, d) ==
    IF Len(c.mag) <= Len(zerosOf(d)) THEN [neg |-> FALSE, mag |-> <<"0">>]
    ELSE [neg |-> c.neg, mag |-> SubSeq(c.mag, 1, Len(c.mag) - Len(zerosOf(d)))]

\* asNanoseconds without the test for overflow.
asNanosecondsUnchecked(x, p) ==
    IF p = Nanosecond THEN [ns |-> x, ok |-> TRUE]
    ELSE [ns |-> mul64(x, Duration(p)), ok |-> TRUE]

\* asNanoseconds returns x multiplied by p.Duration, and whether the
\* multiplication succeeded without overflow.
asNanoseconds(x, p) ==
    IF p = Nanosecond THEN [ns |-> x, ok |-> TRUE]
    ELSE With(mul64(x, Duration(p)), LAMBDA c :
           IF quo64(c, Duration(p)) = x
           THEN [ns |-> c, ok |-> TRUE]
           ELSE [ns |-> [neg |-> FALSE, mag |-> <<"0">>], ok |-> FALSE])

\* Truncate that rounds towards zero.
TruncateTowardsZero(t, d) ==
    [ns |-> IF t.ns >= 0 THEN t.ns - (t.ns % d) ELSE t.ns + ((0 - t.ns) % d)]

\* time.Time.Truncate: t rounded down to a multiple of d.
Truncate(t, d) == [ns |-> t.ns - (t.ns % d)]

\* Time, once TimeBytes has returned the timestamp data.
timeParsed(r, data, prec) ==
    IF parseIntBytes(data) # "ok"
    THEN [t |-> r.t, tm |-> zeroTime, err |-> Errorf("invalid timestamp %q", data),
          perr |-> TRUE]
    ELSE With(asNanoseconds(intOf(data), prec), LAMBDA n :
           IF ~n.ok
           THEN [t |-> r.t, tm |-> zeroTime,
                 err |-> Errorf("timestamp %s%s out of range", data \o <<precString(prec)>>),
                 perr |-> TRUE]
           ELSE [t |-> r.t, tm |-> [ns |-> n.ns], err |-> NoErr, perr |-> FALSE])

\* Time is a wrapper around TimeBytes that returns the timestamp assuming
\* the given precision.
Time(t, prec, defaultTime) ==
    With(TimeBytes(t), LAMBDA r :
      IF r.err # NoErr THEN [t |-> r.t, tm |-> zeroTime, err |-> r.err, perr |-> FALSE]
      ELSE IF r.val = nilSlice
      THEN [t |-> r.t, tm |-> Truncate(defaultTime, Duration(prec)), err |-> NoErr,
            perr |-> FALSE]
      ELSE timeParsed(r, view(r.t, r.val), prec))

(***************************************************************************)
(* Inputs.  Raw inputs are all byte strings up to MaxRawLen over RawBytes. *)
(* Line inputs are made of up to MaxLines lines of the catalogue Lines,    *)
(* with one of the separators Between between two lines and one of Ends    *)
(* after the last; a single line may come after the blank lines of Leads.  *)
(* A line that is a syntactically valid point (ok) comes with what it      *)
(* says: m, tags, fields and time; the other lines are malformed in one    *)
(* way each.                                                               *)
(***************************************************************************)
MaxRawLen == 2

MaxLines == 2

MaxReadSize == 2

RawBytes == {"m", ",", "=", " ", "\n", "#", "\\", "1"}

RECURSIVE SeqsUpTo(_, _)
SeqsUpTo(S, n) ==
    IF n = 0 THEN {<<>>}
    ELSE With(SeqsUpTo(S, n - 1), LAMBDA shorter :
           shorter \cup {Append(q, b) : q \in {x \in shorter : Len(x) = n - 1}, b \in S})

RawInputs == SeqsUpTo(RawBytes, MaxRawLen) \ {<<>>}

Lines ==
    << [ok |-> TRUE,
        text |-> <<"m", ",", "k", "=", "v", "v", "v", " ", "x", "=", "1", "i",
                   " ", "5">>,
        m |-> <<"m">>,
        tags |-> <<[key |-> <<"k">>, val |-> <<"v", "v", "v">>]>>,
        fields |-> <<[key |-> <<"x">>, kind |-> IntKind, val |-> <<"1">>]>>,
        time |-> <<"5">>],
       [ok |-> TRUE,
        text |-> <<"a", "\\", " ", "b", ",", "k", "=", "\\", ",", "w", " ",
                   "s", "=", "\"", "\\", "\"", "r", "\"", ",", "t", "=", "T",
                   " ", "-", "7">>,
        m |-> <<"a", " ", "b">>,
        tags |-> <<[key |-> <<"k">>, val |-> <<",", "w">>]>>,
        fields |-> <<[key |-> <<"s">>, kind |-> String, val |-> <<"\"", "r">>],
                     [key |-> <<"t">>, kind |-> Bool, val |-> <<"T">>]>>,
        time |-> <<"-", "7">>],
       [ok |-> TRUE,
        text |-> <<"m", ",", "a", "=", "b", ",", "c", "=", "d", " ", "s",
                   "=", "\"", "\n", "\"", " ">>,
        m |-> <<"m">>,
        tags |-> <<[key |-> <<"a">>, val |-> <<"b">>], [key |-> <<"c">>, val |-> <<"d">>]>>,
        fields |-> <<[key |-> <<"s">>, kind |-> String, val |-> <<"\n">>]>>,
        time |-> NilBytes],
       [ok |-> FALSE,
        text |-> <<"m", " ", "x", " ", "y", "=", "1">>,
        m |-> <<>>, tags |-> <<>>, fields |-> <<>>, time |-> NilBytes],
       [ok |-> FALSE,
        text |-> <<",", "m", " ", "x", "=", "1">>,
        m |-> <<>>, tags |-> <<>>, fields |-> <<>>, time |-> NilBytes],
       [ok |-> FALSE,
        text |-> <<"m", ",", "a", "\\", ",", "b", " ", "x", "=", "1">>,
        m |-> <<>>, tags |-> <<>>, fields |-> <<>>, time |-> NilBytes],
       [ok |-> FALSE,
        text |-> <<"m", " ", "a", "=", "1", "e", "3", "0", "9", ",", "b",
                   "=", "t", "r", "u", "E", ",", "c", "=", "1", " ", "5">>,
        m |-> <<>>, tags |-> <<>>, fields |-> <<>>, time |-> NilBytes] >>

\* Between two lines: LF, or CR LF and then a blank line and a comment line.
Between == {<<"\n">>, <<"\r", "\n", " ", "\n", "#", "c", "\n">>}

\* After the last line: nothing or LF.
Ends == {<<>>, <<"\n">>}

\* Before a single line: nothing, or blank lines.
Leads == {<<>>, <<"\n", "\n", "\n", "\n">>}

\* A choice of lines (indices into Lines), of what is before, between and after them.
Choices ==
    {ch \in [lead : Leads, ls : SeqsUpTo(1..Len(Lines), MaxLines) \ {<<>>},
             sep : Between, end : Ends] : ch.lead = <<>> \/ Len(ch.ls) = 1}

RECURSIVE joined(_, _)
joined(ls, sep) ==
    IF Len(ls) = 1 THEN Lines[ls[1]].text
    ELSE Lines[ls[1]].text \o sep \o joined(Tail(ls), sep)

textOf(ch) == ch.lead \o joined(ch.ls, ch.sep) \o ch.end

\* The choice is of valid points only.
validChoice(ch) == \A i \in 1..Len(ch.ls) : Lines[ch.ls[i]].ok

ptsOf(ch) == [i \in 1..Len(ch.ls) |-> Lines[ch.ls[i]]]

\* An input: the bytes, whether they are valid points only, and the points.
RawSources == {[data |-> d, valid |-> FALSE, pts |-> <<>>] : d \in RawInputs}

LineSources ==
    {[data |-> textOf(ch), valid |-> validChoice(ch),
      pts |-> IF validChoice(ch) THEN ptsOf(ch) ELSE <<>>] : ch \in Choices}

(***************************************************************************)
(* More lines, each with one oddity, that are read alone or with a valid   *)
(* line after them: a field value of no recognized type; a comma with no   *)
(* tag key after it, after the measurement and after a tag value; a        *)
(* comment with a CR inside it; a CR between the measurement and the first *)
(* field key.                                                              *)
(***************************************************************************)
OddLines ==
    { <<"m", " ", "x", "=", "y">>,
      <<"m", ",", " ", "x", "=", "1">>,
      <<"m", ",", "k", "=", "v", ",", " ", "x", "=", "1">>,
      <<"#", "\r", "c">>,
      <<"m", "\r", "x", "=", "1">> }

\* After an odd line: nothing, LF, or LF and a valid line.
OddTails == {<<>>, <<"\n">>, <<"\n">> \o Lines[1].text}

OddSources ==
    {[data |-> l \o e, valid |-> FALSE, pts |-> <<>>] : l \in OddLines, e \in OddTails}

(***************************************************************************)
(* Constructors.                                                           *)
(***************************************************************************)
\* No reader (t.rd is nil): the tokenizer holds all of data.
noReader(data) ==
    [data |-> data, pos |-> Len(data), sizes |-> <<1>>, k |-> 0, final |-> "none",
     errs |-> 0]

newReader(data, sizes, final) ==
    [data |-> data, pos |-> 0, sizes |-> sizes, k |-> 0, final |-> final, errs |-> 0]

\* NewTokenizerWithBytes returns a tokenizer that splits the text inside buf.
NewTokenizerWithBytes(data) ==
    [rd |-> noReader(data), mem |-> data, len |-> Len(data), r0 |-> 0, r1 |-> 0,
     complete |-> TRUE, section |-> endSection, skipping |-> FALSE,
     escBuf |-> <<>>, err |-> NoErr, old |-> <<>>]

\* NewTokenizer returns a tokenizer that reads from the given reader.
NewTokenizer(rd) ==
    [rd |-> rd, mem |-> <<>>, len |-> 0, r0 |-> 0, r1 |-> 0,
     complete |-> FALSE, section |-> endSection, skipping |-> FALSE,
     escBuf |-> <<>>, err |-> NoErr, old |-> <<>>]

\* NewTokenizerAtSection returns a tokenizer that parses the given bytes but
\* starting at the given section.
NewTokenizerAtSection(buf, section) ==
    With([NewTokenizerWithBytes(buf) EXCEPT !.section = section], LAMBDA t :
      IF section # TagSection \/ ~get(whitespace, at(t, 0)) THEN t
      ELSE [takeFieldSpace(t) EXCEPT !.section = FieldSection])

Finals == {"eof", "dataeof", "err", "dataerr"}

Schedules == {<<n>> : n \in 1..MaxReadSize}

\* The tokenizers of a raw input: over the bytes, or over a reader of them.
Tokenizers(data) ==
    {NewTokenizerWithBytes(data)}
      \cup {NewTokenizer(newReader(data, sz, f)) : sz \in Schedules, f \in Finals}

\* The tokenizers of a line input: over the bytes, or over a reader that ends with io.EOF.
LineTokenizers(data) ==
    {NewTokenizerWithBytes(data)}
      \cup {NewTokenizer(newReader(data, sz, "eof")) : sz \in Schedules}

(***************************************************************************)
(* The Encoder: a builder of lines in a buffer.  buf is what Bytes()       *)
(* returns, lineStart the offset to which an error on the line rolls the   *)
(* buffer back, section the part of the line that was added last,          *)
(* lineHasError whether the line has failed, err what Err() returns,       *)
(* pointIndex how many lines have been started.  A time is its nanoseconds *)
(* since the Unix epoch, as a sign and a decimal magnitude, or the zero time.*)
(***************************************************************************)
\* time.Time{}, for which IsZero holds.
noTime == [zero |-> TRUE, ns |-> [neg |-> FALSE, mag |-> <<"0">>]]

\* var e Encoder
newEncoder ==
    [buf |-> <<>>, lineStart |-> 0, section |-> MeasurementSection, lineHasError |-> FALSE,
     err |-> NoErr, prevTagKey |-> <<>>, pointIndex |-> 0, lax |-> FALSE,
     precision |-> Nanosecond]

\* A measurement, a key or a tag value that can be encoded: not empty, with
\* no trailing backslash and no byte that is not printable.
validMeasurementOrKey(s) ==
    /\ Len(s) > 0
    /\ s[Len(s)] # "\\"
    /\ \A i \in 1..Len(s) : s[i] \notin {NUL, "\n", "\t", "\r", "\f"}

RECURSIVE appendEscaped(_, _)
\* appendEscaped that escapes nothing.
appendUnescaped(escapes, s) == s

\* appendEscaped returns the escaped form of s: a backslash and the byte of
\* the table for each byte that the escaper escapes.
appendEscaped(escapes, s) ==
    IF s = <<>> THEN <<>>
    ELSE (IF Head(s) \in escapes THEN <<"\\", quoteByte(Head(s))>> ELSE <<Head(s)>>)
           \o appendEscaped(escapes, Tail(s))

\* strconv.Itoa
RECURSIVE itoa(_)
itoa(n) == IF n < 10 THEN <<Digits[n + 1]>> ELSE Append(itoa(n \div 10), Digits[(n % 10) + 1])

\* setErrorf that leaves the failed line's bytes in the buffer.
setErrorfKeepsLine(e, f, a) ==
    [e EXCEPT !.lineHasError = TRUE,
              !.err = IF e.err # NoErr THEN e.err
                      ELSE IF e.pointIndex <= 1 THEN Errorf(f, a)
                      ELSE Errorf("encoding point %d: %v", itoa(e.pointIndex - 1) \o <<f>> \o a)]

\* setErrorf records the first error, tagged with the index of the point, and
\* rolls the buffer back to the start of the line.
setErrorf(e, f, a) ==
    [e EXCEPT !.lineHasError = TRUE,
              !.err = IF e.err # NoErr THEN e.err
                      ELSE IF e.pointIndex <= 1 THEN Errorf(f, a)
                      ELSE Errorf("encoding point %d: %v", itoa(e.pointIndex - 1) \o <<f>> \o a),
              !.buf = SubSeq(e.buf, 1, e.lineStart)]

\* StartLine that leaves the measurement out of the buffer.
StartLineAddsNothing(e, name) ==
    IF e.section = TagSection /\ ~e.lineHasError
    THEN setErrorf([e EXCEPT !.pointIndex = @ + 1],
                   "cannot start line without adding at least one field to previous line", <<>>)
    ELSE With([e EXCEPT !.pointIndex = @ + 1, !.section = TagSection, !.lineHasError = FALSE,
                        !.lineStart = Len(e.buf), !.prevTagKey = <<>>], LAMBDA s :
           IF ~e.lax /\ ~validMeasurementOrKey(name)
           THEN setErrorf(s, "invalid measurement %q", name)
           ELSE s)

\* StartLine begins a line with the given measurement: the rollback point is
\* the end of the buffer, and a line feed parts the line from the one before.
StartLine(e, name) ==
    IF e.section = TagSection /\ ~e.lineHasError
    THEN setErrorf([e EXCEPT !.pointIndex = @ + 1],
                   "cannot start line without adding at least one field to previous line", <<>>)
    ELSE With([e EXCEPT !.pointIndex = @ + 1, !.section = TagSection, !.lineHasError = FALSE,
                        !.lineStart = Len(e.buf), !.prevTagKey = <<>>], LAMBDA s :
           IF ~e.lax /\ ~validMeasurementOrKey(name)
           THEN setErrorf(s, "invalid measurement %q", name)
           ELSE [s EXCEPT !.buf = @ \o (IF Len(@) > 0 THEN <<"\n">> ELSE <<>>)
                                    \o appendEscaped(measurementEscapes, name)])

\* bytes.Compare(a, b) < 0, over the bytes of the keys given to the Encoder.
bytesLess(a, b) ==
    LET order == <<" ", ",", "1", "=", "\\", "a", "b", "f", "m">>
        ord(c) == CHOOSE i \in 1..Len(order) : order[i] = c
    IN  \E i \in 1..Len(b) :
          /\ i - 1 <= Len(a)
          /\ \A j \in 1..(i - 1) : a[j] = b[j]
          /\ i > Len(a) \/ ord(a[i]) < ord(b[i])

\* AddTag that does not check the order of the keys when the Encoder is lax.
AddTagLaxOrder(e, key, value) ==
    IF e.lineHasError THEN e
    ELSE IF e.section # TagSection
    THEN setErrorf(e, "tag must be added after adding a measurement and before adding fields", <<>>)
    ELSE IF ~e.lax /\ ~validMeasurementOrKey(key) THEN setErrorf(e, "invalid tag key %q", key)
    ELSE IF ~e.lax /\ ~validMeasurementOrKey(value)
    THEN setErrorf(e, "invalid tag value %s=%q", key \o value)
    ELSE IF ~e.lax /\ e.prevTagKey # <<>> /\ ~bytesLess(e.prevTagKey, key)
    THEN setErrorf(e, "tag key %q out of order (previous key %q)", key \o e.prevTagKey)
    ELSE [e EXCEPT !.buf = @ \o <<",">> \o appendEscaped(tagKeyEscapes, key) \o <<"=">>
                             \o appendEscaped(tagValEscapes, value),
                   !.prevTagKey = key]

\* AddTag adds a tag to the line: after StartLine and before the fields, with
\* a key greater than the key of the tag before.
AddTag(e, key, value) ==
    IF e.lineHasError THEN e
    ELSE IF e.section # TagSection
    THEN setErrorf(e, "tag must be added after adding a measurement and before adding fields", <<>>)
    ELSE IF ~e.lax /\ ~validMeasurementOrKey(key) THEN setErrorf(e, "invalid tag key %q", key)
    ELSE IF ~e.lax /\ ~validMeasurementOrKey(value)
    THEN setErrorf(e, "invalid tag value %s=%q", key \o value)
    ELSE IF e.prevTagKey # <<>> /\ ~bytesLess(e.prevTagKey, key)
    THEN setErrorf(e, "tag key %q out of order (previous key %q)", key \o e.prevTagKey)
    ELSE [e EXCEPT !.buf = @ \o <<",">> \o appendEscaped(tagKeyEscapes, key) \o <<"=">>
                             \o appendEscaped(tagValEscapes, value),
                   !.prevTagKey = key]

\* AddField that does not look at the error of the line.
AddFieldOnFailedLine(e, key, value) ==
    IF e.section \notin {TagSection, FieldSection}
    THEN setErrorf(e, "field must be added after tag or measurement section", <<>>)
    ELSE IF ~e.lax /\ ~validMeasurementOrKey(key) THEN setErrorf(e, "invalid field key %q", key)
    ELSE [e EXCEPT !.buf = @ \o (IF e.section = TagSection THEN <<" ">> ELSE <<",">>)
                             \o appendEscaped(fieldKeyEscapes, key) \o <<"=">>
                             \o value.data
                             \o (CASE value.kind = IntKind -> <<"i">>
                                   [] value.kind = Uint -> <<"u">>
                                   [] OTHER -> <<>>),
                   !.section = FieldSection]

\* AddField adds a field to the line, after the measurement, the tags or
\* another field.
AddField(e, key, value) ==
    IF e.lineHasError THEN e
    ELSE IF e.section \notin {TagSection, FieldSection}
    THEN setErrorf(e, "field must be added after tag or measurement section", <<>>)
    ELSE IF ~e.lax /\ ~validMeasurementOrKey(key) THEN setErrorf(e, "invalid field key %q", key)
    ELSE [e EXCEPT !.buf = @ \o (IF e.section = TagSection THEN <<" ">> ELSE <<",">>)
                             \o appendEscaped(fieldKeyEscapes, key) \o <<"=">>
                             \o value.data
                             \o (CASE value.kind = IntKind -> <<"i">>
                                   [] value.kind = Uint -> <<"u">>
                                   [] OTHER -> <<>>),
                   !.section = FieldSection]

\* The nanoseconds ns whatever the precision.
scaledToNanoseconds(ns, p) == ns

\* The nanoseconds ns in units of the precision p: ns divided by the
\* duration of p, the fraction discarded.
scaled(ns, p) ==
    IF Len(ns.mag) <= 3 * p THEN [neg |-> FALSE, mag |-> <<"0">>]
    ELSE [neg |-> ns.neg, mag |-> SubSeq(ns.mag, 1, Len(ns.mag) - 3 * p)]

\* EndLine that does not ask for a field.
EndLineWithoutField(e, t) ==
    IF e.lineHasError THEN e
    ELSE IF t.zero THEN [e EXCEPT !.section = endSection]
    ELSE With(scaled(t.ns, e.precision), LAMBDA ts :
           IF gtDigits(ts.mag, IF ts.neg THEN MinInt64Magnitude ELSE MaxInt64)
           THEN setErrorf([e EXCEPT !.section = endSection],
                          "timestamp %s: line-protocol value out of range", t.ns.mag)
           ELSE [e EXCEPT !.section = endSection,
                          !.buf = @ \o <<" ">> \o (IF ts.neg THEN <<"-">> ELSE <<>>) \o ts.mag])

\* EndLine ends the line, with the timestamp in units of the precision
\* unless it is the zero time.
EndLine(e, t) ==
    IF e.lineHasError THEN e
    ELSE IF e.section # FieldSection
    THEN setErrorf(e, "timestamp must be added after adding at least one field", <<>>)
    ELSE IF t.zero THEN [e EXCEPT !.section = endSection]
    ELSE With(scaled(t.ns, e.precision), LAMBDA ts :
           IF gtDigits(ts.mag, IF ts.neg THEN MinInt64Magnitude ELSE MaxInt64)
           THEN setErrorf([e EXCEPT !.section = endSection],
                          "timestamp %s: line-protocol value out of range", t.ns.mag)
           ELSE [e EXCEPT !.section = endSection,
                          !.buf = @ \o <<" ">> \o (IF ts.neg THEN <<"-">> ELSE <<>>) \o ts.mag])

\* SetLax sets whether the Encoder checks the measurements, keys and tag
\* values that it is given.
SetLax(e, lax) == [e EXCEPT !.lax = lax]

\* SetPrecision sets the precision of the timestamps.
SetPrecision(e, p) == [e EXCEPT !.precision = p]

\* ClearErr clears the error that Err returns.
ClearErr(e) == [e EXCEPT !.err = NoErr]

(***************************************************************************)
(* The Encoder of package protocol and its Write.  An Encoder has the      *)
(* bytes w that it has written to its io.Writer, its buffers header,       *)
(* footer and pair, and its settings maxLineBytes and failOnFieldError.    *)
(* A field value is its kind and the digits that it is written with.       *)
(***************************************************************************)
ErrNeedMoreSpace == [text |-> <<"need more space">>, is |-> {"ErrNeedMoreSpace"}]

ErrNoFields == [text |-> <<"no serializable fields">>, is |-> {"ErrNoFields"}]

ErrInvalidName == [text |-> <<"invalid name">>, is |-> {"ErrInvalidName"}]

FieldError(reason) == [text |-> <<reason>>, is |-> {"FieldError"}]

comma == <<",">>

NewEncoder ==
    [w |-> <<>>, header |-> <<>>, footer |-> <<>>, pair |-> <<>>, maxLineBytes |-> 0,
     failOnFieldError |-> FALSE]

SetMaxLineBytes(e, i) == [e EXCEPT !.maxLineBytes = i]

FailOnFieldErr(e, s) == [e EXCEPT !.failOnFieldError = s]

\* e.w.Write(b), on a writer that takes every byte.
wWrite(e, b) == [e EXCEPT !.w = @ \o b]

\* escapeBytes escapes the bytes of a key or of a tag value.
RECURSIVE escapeBytes(_)
escapeBytes(b) ==
    IF b = <<>> THEN <<>>
    ELSE (CASE Head(b) = "\t" -> <<"\\", "t">>
            [] Head(b) = "\n" -> <<"\\", "n">>
            [] Head(b) = "\f" -> <<"\\", "f">>
            [] Head(b) = "\r" -> <<"\\", "r">>
            [] Head(b) = "," -> <<"\\", ",">>
            [] Head(b) = " " -> <<"\\", " ">>
            [] Head(b) = "=" -> <<"\\", "=">>
            [] OTHER -> <<Head(b)>>) \o escapeBytes(Tail(b))

\* The tag of key k and value v cannot be encoded.
badTag(k, v) == Len(k) = 0 \/ Len(v) = 0 \/ k[Len(k)] = "\\" \/ v[Len(v)] = "\\"

\* The loop of buildHeaderBytes, from the tag i on.
RECURSIVE headerTags(_, _, _, _)
headerTags(e, tagKeys, tagVals, i) ==
    IF i > Len(tagKeys) THEN [e |-> [e EXCEPT !.header = @ \o <<" ">>], err |-> NoErr]
    ELSE IF badTag(tagKeys[i], tagVals[i])
    THEN IF e.failOnFieldError
         THEN [e |-> e,
               err |-> Errorf("invalid field: key \"%s\", val \"%s\"", tagKeys[i] \o tagVals[i])]
         ELSE headerTags(e, tagKeys, tagVals, i + 1)
    ELSE headerTags([e EXCEPT !.header = @ \o <<",">> \o escapeBytes(tagKeys[i]) \o <<"=">>
                                          \o escapeBytes(tagVals[i])],
                    tagKeys, tagVals, i + 1)

buildHeaderBytes(e, name, tagKeys, tagVals) ==
    IF Len(name) = 0 \/ name[Len(name)] = "\\"
    THEN [e |-> [e EXCEPT !.header = <<>>], err |-> ErrInvalidName]
    ELSE headerTags([e EXCEPT !.header = name], tagKeys, tagVals, 1)

\* buildFooter: a space, the timestamp and a line feed.
buildFooter(e, ts) == [e EXCEPT !.footer = <<" ">> \o ts \o <<"\n">>]

\* buildFieldVal appends the value to the pair.
buildFieldVal(e, value) ==
    [e |-> [e EXCEPT !.pair = @ \o value.data \o (IF value.kind = IntKind THEN <<"i">> ELSE <<>>)],
     err |-> NoErr]

buildFieldPairBytes(e, key, value) ==
    With(escapeBytes(key), LAMBDA k :
      IF Len(k) = 0 \/ k[Len(k)] = "\\"
      THEN [e |-> [e EXCEPT !.pair = <<>>], err |-> FieldError("invalid field key")]
      ELSE buildFieldVal([e EXCEPT !.pair = k \o <<"=">>], value))

\* The end of the line when the pair does not fit on it, that writes no
\* footer when the pair does not fit on a line of its own either.
endFullLineKeepsFooter(e) ==
    IF e.maxLineBytes > 0 /\ Len(e.header) + Len(e.pair) + Len(e.footer) > e.maxLineBytes
    THEN [e |-> e, err |-> ErrNeedMoreSpace]
    ELSE [e |-> wWrite(e, e.footer), err |-> NoErr]

\* The end of the line when the pair does not fit on it: the footer is
\* written, and the pair must fit on a line of its own.
endFullLine(e) ==
    IF e.maxLineBytes > 0 /\ Len(e.header) + Len(e.pair) + Len(e.footer) > e.maxLineBytes
    THEN [e |-> wWrite(e, e.footer), err |-> ErrNeedMoreSpace]
    ELSE [e |-> wWrite(e, e.footer), err |-> NoErr]

\* The length that the line is taken to have with the pair on it.
bytesNeeded(e, pairsLen, firstField) ==
    Len(e.header) + pairsLen + Len(e.pair) + Len(e.footer) + (IF firstField THEN 0 ELSE 1)

\* The loop of Write, from the field i on; l holds totalWritten, pairsLen and
\* firstField.
RECURSIVE writeFields(_, _, _, _, _)
writeFields(e0, fieldKeys, fieldVals, i, l) ==
    IF i > Len(fieldKeys)
    THEN IF l.firstField THEN [e |-> e0, n |-> 0, err |-> ErrNoFields]
         ELSE [e |-> wWrite(e0, e0.footer), n |-> l.totalWritten + Len(e0.footer), err |-> NoErr]
    ELSE With(buildFieldPairBytes(e0, fieldKeys[i], fieldVals[i]), LAMBDA b :
      IF b.err # NoErr
      THEN IF e0.failOnFieldError THEN [e |-> b.e, n |-> 0, err |-> b.err]
           ELSE writeFields(b.e, fieldKeys, fieldVals, i + 1, l)
      ELSE IF b.e.maxLineBytes > 0 /\ bytesNeeded(b.e, l.pairsLen, l.firstField) > b.e.maxLineBytes
      THEN IF l.firstField THEN [e |-> b.e, n |-> 0, err |-> ErrNeedMoreSpace]
           ELSE With(endFullLine(b.e), LAMBDA f :
                  IF f.err # NoErr THEN [e |-> f.e, n |-> 0, err |-> f.err]
                  ELSE writeFields(wWrite(wWrite(f.e, f.e.header), f.e.pair),
                                   fieldKeys, fieldVals, i + 1,
                                   [totalWritten |-> l.totalWritten + Len(f.e.footer)
                                                       + Len(f.e.header) + Len(f.e.pair),
                                    pairsLen |-> l.pairsLen + Len(f.e.pair),
                                    firstField |-> FALSE]))
      ELSE writeFields(wWrite(wWrite(b.e, IF l.firstField THEN b.e.header ELSE comma), b.e.pair),
                       fieldKeys, fieldVals, i + 1,
                       [totalWritten |-> l.totalWritten
                                           + (IF l.firstField THEN Len(b.e.header) ELSE Len(comma)),
                        pairsLen |-> l.pairsLen + Len(b.e.pair),
                        firstField |-> FALSE]))

\* Write writes a point: its header, its fields and its footer, on more than
\* one line when the fields do not fit on one.
Write(e, name, ts, tagKeys, tagVals, fieldKeys, fieldVals) ==
    With(buildHeaderBytes(e, name, tagKeys, tagVals), LAMBDA h :
      IF h.err # NoErr THEN [e |-> h.e, n |-> 0, err |-> h.err]
      ELSE writeFields(buildFooter(h.e, ts), fieldKeys, fieldVals, 1,
                       [totalWritten |-> 0, pairsLen |-> 0, firstField |-> TRUE]))

(***************************************************************************)
(* The state machine: a tokenizer over an input, and a client that calls   *)
(* its methods in any order.  last is the record of the latest call: what  *)
(* it returned (key and val: what the returned slices hold at the return,  *)
(* key0 and val0: what they held when they were taken) and where it began  *)
(* and ended.  The other variables keep the history of the current entry.  *)
(***************************************************************************)
VARIABLES
    tok,         \* the Tokenizer
    input,       \* the input it reads: data, valid, pts
    last,        \* the latest call and its results
    entry,       \* how many times Next has returned true (up to MaxEntries)
    tagsRead,    \* how many tags NextTag has returned for the current entry
    fieldsRead,  \* how many fields NextFieldBytes has read for the current entry
    failed,      \* a section method has returned a syntax error for the current entry
    parseFailed, \* NextField has failed to parse a value of the current entry
    errPos,      \* the input position at the first syntax error returned, or -1
    entryPos,    \* the input position at which Next returned true, or -1
    enc,         \* the Encoder
    encLog,      \* the latest call of the Encoder, and the points it was given
    penc,        \* the Encoder of package protocol
    pencLog,     \* the latest call of that Encoder, and what it wrote
    run,         \* the latest run of the verify tool, and what it reported
    trip,        \* the latest escaping of a text, and what was read back
    cmp,         \* the latest comparison of two values
    conv,        \* the latest conversion of a timestamp to nanoseconds
    step,        \* the latest step inside the Tokenizer, and what it returned
    off          \* the offset-based Tokenizer, and its latest call

vars == <<tok, input, last, entry, tagsRead, fieldsRead, failed, parseFailed, errPos, entryPos,
          enc, encLog, penc, pencLog, run, trip, cmp, conv, step, off>>

MaxEntries == 3

\* The position in the input of the read point t.r1.
inputPos(t) == t.rd.pos - (t.len - t.r1)

\* The end of a call: the arrays replaced during it are no longer looked at.
done(t) == [t EXCEPT !.old = <<>>]

noCall ==
    [op |-> "none", ok |-> FALSE, key |-> NilBytes, key0 |-> NilBytes, kind |-> Unknown,
     val |-> NilBytes, val0 |-> NilBytes, v |-> NoValue, err |-> NoErr, perr |-> NoErr,
     sec0 |-> endSection, sec |-> endSection, pos0 |-> 0, pos |-> 0, entry0 |-> 0,
     tags0 |-> 0, fields0 |-> 0, failed0 |-> FALSE, parseFailed0 |-> FALSE,
     prevPos |-> -1, errAt |-> -1, tm |-> zeroTime, prec |-> Nanosecond,
     defaultTime |-> zeroTime]

\* Texts that hold the tags of an entry only, with the tags they hold.
TagTexts ==
    { [text |-> <<"a", "=", "b", ",", "c", "=", "h", "\\", ",", ",", "d", "=", "e">>,
       tags |-> <<[key |-> <<"a">>, val |-> <<"b">>],
                  [key |-> <<"c">>, val |-> <<"h", ",">>],
                  [key |-> <<"d">>, val |-> <<"e">>]>>],
      [text |-> <<"k", "\\", "=", "=", "v">>,
       tags |-> <<[key |-> <<"k", "=">>, val |-> <<"v">>]>>] }

\* Texts cut from an entry after its measurement: tags only, or the space
\* before the fields and a field.
SectionSources ==
    {[data |-> x.text, valid |-> FALSE, pts |-> <<>>] : x \in TagTexts}
      \cup {[data |-> <<" ", "x", "=", "1">>, valid |-> FALSE, pts |-> <<>>]}

\* The point that a line of the Encoder was given: what the calls that did
\* not fail have added.
noPoint ==
    [name |-> <<>>, tags |-> <<>>, fields |-> <<>>, time |-> noTime, precision |-> Nanosecond]

\* No call of the Encoder yet: op is the latest call, failed whether it
\* failed, points the lines that were complete when the current line was
\* started, point the current line, started whether there is one.
noEncCall ==
    [op |-> "none", arg |-> <<>>, failed |-> FALSE, points |-> <<>>, point |-> noPoint, started |-> FALSE]

\* No run of the verify tool yet: op is the tool, status what it has returned
\* or exited with, logged how many errors it has printed.
noRun == [op |-> "none", status |-> 0, logged |-> 0]

\* No text escaped yet: section is the section of the text, text the text,
\* escaped its escaped bytes, read what takeEsc has read back from them.
noTrip == [section |-> "none", text |-> <<>>, escaped |-> <<>>, read |-> <<>>]

\* No comparison of values yet: x1 and x2 are what NewValue was given, v1 and
\* v2 the values it made, equal what v1.Equal(v2) has returned.
noCmp == [op |-> "none", x1 |-> <<>>, x2 |-> <<>>, v1 |-> <<>>, v2 |-> <<>>, equal |-> FALSE]

\* No conversion yet: x is the timestamp and p its precision, ns and ok what
\* asNanoseconds has returned.
noConv == [op |-> "none", x |-> <<>>, p |-> Nanosecond, ns |-> <<>>, ok |-> FALSE]

\* No step inside the Tokenizer yet: op is the method, t0 the tokenizer before
\* the step, set, escapes and n the arguments, got the bytes and ok the bool
\* returned, count how many steps were taken.
noStep ==
    [op |-> "none", t0 |-> <<>>, set |-> <<>>, escapes |-> <<>>, n |-> 0, got |-> <<>>,
     ok |-> FALSE, count |-> 0]

\* No offset-based Tokenizer: t is the tokenizer, pos how many bytes of the
\* input have been discarded, next how many bytes after them have been
\* taken, op the latest call, set and from its arguments, got the bytes
\* returned, count how many calls were made.
noOff ==
    [t |-> <<>>, pos |-> 0, next |-> 0, op |-> "none", set |-> <<>>, from |-> 0,
     got |-> <<>>, count |-> 0]

\* No call of the Encoder of package protocol yet: op is the latest call,
\* point what Write was given, out what it has written, n and err what it
\* has returned, writes how many times it has been called.
noWrite ==
    [op |-> "none", point |-> <<>>, out |-> <<>>, n |-> 0, err |-> NoErr, writes |-> 0]

\* The tokenizers of a source.
Starts ==
    UNION ({{[s |-> s, t |-> t] : t \in Tokenizers(s.data)} : s \in RawSources}
             \cup {{[s |-> s, t |-> t] : t \in LineTokenizers(s.data)} :
                     s \in LineSources \cup OddSources}
             \cup {{[s |-> s, t |-> NewTokenizerAtSection(s.data, TagSection)]} :
                     s \in SectionSources})

Init ==
    \E st \in Starts :
      /\ tok = st.t
      /\ input = st.s
      /\ last = noCall
      /\ entry = 0
      /\ tagsRead = 0
      /\ fieldsRead = 0
      /\ failed = FALSE
      /\ parseFailed = FALSE
      /\ errPos = -1
      /\ entryPos = -1
      /\ enc = newEncoder
      /\ encLog = noEncCall
      /\ penc = NewEncoder
      /\ pencLog = noWrite
      /\ run = noRun
      /\ trip = noTrip
      /\ cmp = noCmp
      /\ conv = noConv
      /\ step = noStep
      /\ off = noOff

\* A call of Next; a is what its advanceToSection(endSection) returns.
nextCall(a, r) ==
    /\ tok' = done(r.t)
    /\ last' = [noCall EXCEPT !.op = "Next", !.ok = r.ok,
                              !.sec0 = tok.section, !.sec = r.t.section,
                              !.pos0 = inputPos(tok), !.pos = inputPos(r.t),
                              !.entry0 = entry, !.tags0 = tagsRead, !.fields0 = fieldsRead,
                              !.failed0 = failed, !.parseFailed0 = parseFailed,
                              !.prevPos = entryPos,
                              !.errAt = IF errPos >= 0 THEN errPos
                                        ELSE IF a.err # NoErr THEN inputPos(a.t) ELSE -1]
    /\ entry' = IF r.ok /\ entry < MaxEntries THEN entry + 1 ELSE entry
    /\ tagsRead' = 0
    /\ fieldsRead' = 0
    /\ failed' = FALSE
    /\ parseFailed' = FALSE
    /\ errPos' = -1
    /\ entryPos' = IF r.ok THEN inputPos(r.t) ELSE -1
    /\ UNCHANGED <<input, enc, encLog, penc, pencLog, run, trip, cmp, conv, step, off>>

CallNext ==
    \E a \in {advanceToSection(tok, endSection)} : nextCall(a, nextFrom(a))

\* A call of the section method op that returns r (and the value v; perr is
\* the error of the value's parsing, if any).
sectionCall(op, r, v, perr) ==
    /\ tok' = done(r.t)
    /\ last' = [noCall EXCEPT !.op = op, !.ok = TRUE,
                              !.key = view(r.t, r.key), !.key0 = r.key.val,
                              !.kind = r.kind,
                              !.val = view(r.t, r.val), !.val0 = r.val.val,
                              !.v = v, !.err = r.err, !.perr = perr,
                              !.sec0 = tok.section, !.sec = r.t.section,
                              !.pos0 = inputPos(tok), !.pos = inputPos(r.t),
                              !.entry0 = entry, !.tags0 = tagsRead, !.fields0 = fieldsRead,
                              !.failed0 = failed, !.parseFailed0 = parseFailed]
    /\ tagsRead' = IF op = "NextTag" /\ r.key # nilSlice THEN tagsRead + 1 ELSE tagsRead
    /\ fieldsRead' = IF op \in {"NextFieldBytes", "NextField"} /\ (r.key # nilSlice \/ perr # NoErr)
                     THEN fieldsRead + 1 ELSE fieldsRead
    /\ failed' = (failed \/ (r.err # NoErr /\ perr = NoErr))
    /\ parseFailed' = (parseFailed \/ perr # NoErr)
    /\ errPos' = IF errPos < 0 /\ r.err # NoErr /\ perr = NoErr THEN inputPos(r.t) ELSE errPos
    /\ UNCHANGED <<input, entry, entryPos, enc, encLog, penc, pencLog, run, trip, cmp, conv, step,
            off>>

CallMeasurement ==
    \E r \in {Measurement(tok)} : sectionCall("Measurement", r, NoValue, NoErr)

CallNextTag ==
    \E r \in {NextTag(tok)} : sectionCall("NextTag", r, NoValue, NoErr)

CallNextFieldBytes ==
    \E r \in {NextFieldBytes(tok)} : sectionCall("NextFieldBytes", r, NoValue, NoErr)

CallNextField ==
    \E r \in {NextField(tok)} : sectionCall("NextField", r, r.v, r.perr)

CallTimeBytes ==
    \E r \in {TimeBytes(tok)} : sectionCall("TimeBytes", r, NoValue, NoErr)

\* The precisions and default times that Time is called with.
TimeArgs ==
    {[prec |-> Microsecond, defaultTime |-> [ns |-> 1999]],
     [prec |-> Second, defaultTime |-> [ns |-> -1]]}

\* A call of Time that returns r.
timeCall(a, r) ==
    /\ tok' = done(r.t)
    /\ last' = [noCall EXCEPT !.op = "Time", !.ok = TRUE,
                              !.err = r.err, !.tm = r.tm,
                              !.prec = a.prec, !.defaultTime = a.defaultTime,
                              !.sec0 = tok.section, !.sec = r.t.section,
                              !.pos0 = inputPos(tok), !.pos = inputPos(r.t),
                              !.entry0 = entry, !.tags0 = tagsRead, !.fields0 = fieldsRead,
                              !.failed0 = failed, !.parseFailed0 = parseFailed]
    /\ failed' = (failed \/ (r.err # NoErr /\ ~r.perr))
    /\ parseFailed' = (parseFailed \/ r.perr)
    /\ errPos' = IF errPos < 0 /\ r.err # NoErr /\ ~r.perr THEN inputPos(r.t) ELSE errPos
    /\ UNCHANGED <<input, entry, entryPos, tagsRead, fieldsRead, enc, encLog, penc, pencLog, run, trip,
            cmp, conv, step, off>>

CallTime ==
    \E a \in TimeArgs : \E r \in {Time(tok, a.prec, a.defaultTime)} : timeCall(a, r)

Next ==
    \/ CallNext
    \/ CallMeasurement
    \/ CallNextTag
    \/ CallNextFieldBytes
    \/ CallNextField
    \/ CallTimeBytes
    \/ CallTime

Spec == Init /\ [][Next]_vars

(***************************************************************************)
(* The state machine of the Encoder: a client that calls its methods in    *)
(* any order, with names, tags, fields and times that are valid or not.    *)
(***************************************************************************)
MaxPoints == 2

MaxLaxPoints == 1

MaxFields == 2

EncInit ==
    /\ tok = NewTokenizerWithBytes(<<>>)
    /\ input = [data |-> <<>>, valid |-> FALSE, pts |-> <<>>]
    /\ last = noCall
    /\ entry = 0
    /\ tagsRead = 0
    /\ fieldsRead = 0
    /\ failed = FALSE
    /\ parseFailed = FALSE
    /\ errPos = -1
    /\ entryPos = -1
    /\ enc = newEncoder
    /\ encLog = noEncCall
    /\ penc = NewEncoder
    /\ pencLog = noWrite
    /\ run = noRun
    /\ trip = noTrip
    /\ cmp = noCmp
    /\ conv = noConv
    /\ step = noStep
    /\ off = noOff

\* A call of the method op of the Encoder, with the key arg where it is AddTag
\* and the time arg where it is EndLine, that leaves it as r, the current
\* line being given the point p if the call has not failed.  At StartLine the
\* line before is complete if it has a field and no call on it has failed.
encCall(op, arg, r, p) ==
    /\ enc' = r
    /\ encLog' = [op |-> op,
                  arg |-> arg,
                  failed |-> r.lineHasError /\ (op = "StartLine" \/ ~enc.lineHasError),
                  points |-> IF /\ op = "StartLine"
                                /\ encLog.started
                                /\ ~enc.lineHasError
                                /\ encLog.point.fields # <<>>
                             THEN Append(encLog.points, encLog.point) ELSE encLog.points,
                  point |-> IF op # "StartLine" /\ (r.lineHasError \/ enc.lineHasError)
                            THEN encLog.point ELSE p,
                  started |-> encLog.started \/ op = "StartLine"]
    /\ UNCHANGED <<tok, input, last, entry, tagsRead, fieldsRead, failed, parseFailed,
                   errPos, entryPos, penc, pencLog, run, trip, cmp, conv, step, off>>

\* The tags that AddTag is called with.
TagArgs ==
    {[key |-> <<"a">>, val |-> <<"1">>], [key |-> <<"b">>, val |-> <<"1", ",">>]}

\* The fields that AddField is called with.
FieldArgs ==
    {[key |-> <<"f">>, val |-> [kind |-> IntKind, data |-> <<"1">>]],
     [key |-> <<"\\">>, val |-> [kind |-> IntKind, data |-> <<"1">>]]}

\* The timestamps that EndLine is called with.
EndLineArgs ==
    {noTime, [zero |-> FALSE, ns |-> [neg |-> FALSE, mag |-> <<"1", "9", "9", "9">>]],
     [zero |-> FALSE,
      ns |-> [neg |-> FALSE,
              mag |-> <<"2", "1", "8", "3", "1", "1", "3", "6", "0", "2", "4", "0",
                        "0", "0", "0", "0", "0", "0", "0", "0", "0">>]]}

\* StartLine with a measurement that has a space, or with none.
CallStartLine ==
    \E name \in {<<"m", " ">>, <<>>} :
      /\ enc.pointIndex < (IF enc.lax THEN MaxLaxPoints ELSE MaxPoints)
      /\ encCall("StartLine", <<>>, StartLine(enc, name), [noPoint EXCEPT !.name = name])

\* AddTag with one of two tags, in order or not.
CallAddTag ==
    \E tag \in TagArgs :
    \E r \in {AddTag(enc, tag.key, tag.val)} :
      encCall("AddTag", tag.key, r, [encLog.point EXCEPT !.tags = Append(@, tag)])

\* AddField with a field, or with a key that cannot be encoded.
CallAddField ==
    \E f \in FieldArgs :
      /\ Len(encLog.point.fields) < MaxFields
      /\ encCall("AddField", <<>>, AddField(enc, f.key, f.val),
                 [encLog.point EXCEPT !.fields = Append(@, f)])

\* EndLine with no timestamp, with 1999, and with 8888-01-01T12:00:00Z,
\* which is too late in nanoseconds.
CallEndLine ==
    \E t \in EndLineArgs :
    \E r \in {EndLine(enc, t)} :
      encCall("EndLine", t, r, [encLog.point EXCEPT !.time = t, !.precision = enc.precision])

CallClearErr ==
    /\ enc.err # NoErr
    /\ encCall("ClearErr", <<>>, ClearErr(enc), encLog.point)

\* SetLax(true) on the new Encoder, as in TestEncoderWithDecoderTests.
CallSetLax ==
    /\ encLog.op = "none"
    /\ ~enc.lax
    /\ encCall("SetLax", <<>>, SetLax(enc, TRUE), encLog.point)

\* SetPrecision(Microsecond) right after StartLine, as in
\* TestEncoderWithPrecision.
CallSetPrecision ==
    \E p \in {Microsecond} :
      /\ p # enc.precision
      /\ encLog.op = "StartLine"
      /\ encCall("SetPrecision", <<>>, SetPrecision(enc, p), encLog.point)

EncNext ==
    \/ CallSetLax
    \/ CallSetPrecision
    \/ CallStartLine
    \/ CallAddTag
    \/ CallAddField
    \/ CallEndLine
    \/ CallClearErr

EncSpec == EncInit /\ [][EncNext]_vars

(***************************************************************************)
(* The state machine of the Encoder of package protocol: a client that     *)
(* sets the maximum line size and whether an invalid tag or field is an    *)
(* error, and that writes the points of the tests, whole or in part.       *)
(***************************************************************************)
MaxWrites == 2

WriteInit ==
    /\ tok = NewTokenizerWithBytes(<<>>)
    /\ input = [data |-> <<>>, valid |-> FALSE, pts |-> <<>>]
    /\ last = noCall
    /\ entry = 0
    /\ tagsRead = 0
    /\ fieldsRead = 0
    /\ failed = FALSE
    /\ parseFailed = FALSE
    /\ errPos = -1
    /\ entryPos = -1
    /\ enc = newEncoder
    /\ encLog = noEncCall
    /\ penc = NewEncoder
    /\ pencLog = noWrite
    /\ run = noRun
    /\ trip = noTrip
    /\ cmp = noCmp
    /\ conv = noConv
    /\ step = noStep
    /\ off = noOff

\* A call of the method op that leaves the Encoder as e.
pencCall(op, e, point, n, err) ==
    /\ penc' = e
    /\ pencLog' = [op |-> op, point |-> point,
                   out |-> SubSeq(e.w, Len(penc.w) + 1, Len(e.w)),
                   n |-> n, err |-> err,
                   writes |-> pencLog.writes + (IF op = "Write" THEN 1 ELSE 0)]
    /\ UNCHANGED <<tok, input, last, entry, tagsRead, fieldsRead, failed, parseFailed,
                   errPos, entryPos, enc, encLog, run, trip, cmp, conv, step, off>>

\* The maximum line sizes of "split fields exact", "split fields extra",
\* "split_fields_overflow" and "need more space", and sizes about them.
CallSetMaxLineBytes ==
    \E i \in {0, 32, 33, 34, 43, 50} :
      /\ i # penc.maxLineBytes
      /\ pencLog.writes = 0
      /\ pencCall("SetMaxLineBytes", SetMaxLineBytes(penc, i), <<>>, 0, NoErr)

CallFailOnFieldErr ==
    \E b \in {TRUE} :
      /\ b # penc.failOnFieldError
      /\ pencLog.writes = 0
      /\ pencCall("FailOnFieldErr", FailOnFieldErr(penc, b), <<>>, 0, NoErr)

\* The fields of "split_fields_overflow", a field with no key and a longer
\* field.
TestFields ==
    <<[key |-> <<"a", "b", "c">>, val |-> [kind |-> IntKind, data |-> <<"1", "2", "3">>]],
      [key |-> <<"d", "e", "f">>, val |-> [kind |-> IntKind, data |-> <<"4", "5", "6">>]],
      [key |-> <<"g", "h", "i">>, val |-> [kind |-> IntKind, data |-> <<"7", "8", "9">>]],
      [key |-> <<"j", "k", "l">>, val |-> [kind |-> IntKind, data |-> <<"1", "2", "3">>]],
      [key |-> <<>>, val |-> [kind |-> IntKind, data |-> <<"1">>]],
      [key |-> <<"l", "o", "n", "g", "e", "r", " ", "k", "e", "y">>,
       val |-> [kind |-> IntKind, data |-> <<"1">>]]>>

\* The points that Write is called with.
WritePoints ==
    {[name |-> name,
      ts |-> <<"1", "5", "1", "9", "1", "9", "4", "1", "0", "9",
               "0", "0", "0", "0", "0", "0", "0", "4", "2">>,
      tags |-> tags,
      fields |-> IF extra = 0 THEN SubSeq(TestFields, 1, k)
                 ELSE IF k = 0 THEN <<TestFields[extra]>>
                 ELSE <<TestFields[1], TestFields[extra]>> \o SubSeq(TestFields, 2, k)] :
       name \in {<<"c", "p", "u">>, <<>>},
       tags \in {<<>>, <<[key |-> <<"h">>, val |-> <<"x", " ", "y">>]>>,
                 <<[key |-> <<"h">>, val |-> <<>>]>>},
       k \in 0..4,
       extra \in {0, 5, 6}}

\* Write with the measurement cpu or none, with no tag, a tag or a tag with
\* no value, and with the first fields of the test, the field with no key or
\* the longer field after the first or not.
CallWrite ==
    \E p \in WritePoints :
    \E r \in {Write(penc, p.name, p.ts, [i \in 1..Len(p.tags) |-> p.tags[i].key],
                     [i \in 1..Len(p.tags) |-> p.tags[i].val],
                     [i \in 1..Len(p.fields) |-> p.fields[i].key],
                     [i \in 1..Len(p.fields) |-> p.fields[i].val])} :
      /\ pencLog.writes < MaxWrites
      /\ pencCall("Write", r.e, p, r.n, r.err)

WriteNext ==
    \/ CallSetMaxLineBytes
    \/ CallFailOnFieldErr
    \/ CallWrite

WriteSpec == WriteInit /\ [][WriteNext]_vars

(***************************************************************************)
(* The verify tool: the command lpverify, which reads its standard input,  *)
(* and the function verifyLines, which is given the lines.  Both print the *)
(* error of each entry that has one and go on with the entry after it.     *)
(***************************************************************************)
\* The loop over the tags of an entry: whether NextTag has returned an error.
RECURSIVE verifyTags(_)
verifyTags(dec) ==
    With(NextTag(dec), LAMBDA r :
      IF r.err # NoErr THEN [t |-> done(r.t), err |-> TRUE]
      ELSE IF r.key = nilSlice THEN [t |-> done(r.t), err |-> FALSE]
      ELSE verifyTags(done(r.t)))

\* The loop over the fields of an entry.
RECURSIVE verifyFields(_)
verifyFields(dec) ==
    With(NextField(dec), LAMBDA r :
      IF r.err # NoErr THEN [t |-> done(r.t), err |-> TRUE]
      ELSE IF r.key = nilSlice THEN [t |-> done(r.t), err |-> FALSE]
      ELSE verifyFields(done(r.t)))

\* The body of the loop over the entries: the sections of one entry, up to
\* the first that returns an error.
verifyEntry(dec) ==
    With(Measurement(dec), LAMBDA m :
      IF m.err # NoErr THEN [t |-> done(m.t), err |-> TRUE]
      ELSE With(verifyTags(done(m.t)), LAMBDA tg :
        IF tg.err THEN tg
        ELSE With(verifyFields(tg.t), LAMBDA fl :
          IF fl.err THEN fl
          ELSE With(TimeBytes(fl.t), LAMBDA tm :
                 [t |-> done(tm.t), err |-> tm.err # NoErr]))))

\* The loop over the entries: how many times logErr is called.
RECURSIVE verifyEntries(_, _)
verifyEntries(dec, logged) ==
    With(TokenizerNext(dec), LAMBDA n :
      IF ~n.ok THEN logged
      ELSE With(verifyEntry(done(n.t)), LAMBDA e :
             verifyEntries(e.t, IF e.err THEN logged + 1 ELSE logged)))

\* verify of lpverify: its result ok is false when it begins, and logErr,
\* which alone assigns it, sets it to false.
verify(dec) == [ok |-> FALSE, logged |-> verifyEntries(dec, 0)]

\* main of lpverify: the exit status.
lpverify(dec) ==
    With(verify(dec), LAMBDA v : [status |-> IF ~v.ok THEN 1 ELSE 0, logged |-> v.logged])

\* verifyLines: failure is false when it begins, and logErr sets it to true.
verifyLines(lines) ==
    With(verifyEntries(NewTokenizerWithBytes(lines), 0), LAMBDA logged :
      [status |-> IF logged > 0 THEN 1 ELSE 0, logged |-> logged])

\* A run of the tool op that ends as r.
toolRun(op, r) ==
    /\ run.op = "none"
    /\ run' = [op |-> op, status |-> r.status, logged |-> r.logged]
    /\ UNCHANGED <<tok, input, last, entry, tagsRead, fieldsRead, failed, parseFailed,
                   errPos, entryPos, enc, encLog, penc, pencLog, trip, cmp, conv, step, off>>

\* lpverify over a reader of the input.
RunLpverify ==
    /\ ~tok.complete
    /\ \E r \in {lpverify(tok)} : toolRun("lpverify", r)

\* verifyLines with the input.
RunVerifyLines ==
    /\ tok = NewTokenizerWithBytes(input.data)
    /\ \E r \in {verifyLines(input.data)} : toolRun("verifyLines", r)

VerifyNext ==
    \/ RunLpverify
    \/ RunVerifyLines

VerifySpec == Init /\ [][VerifyNext]_vars

(***************************************************************************)
(* Escaping and reading back: a text is escaped for a section of the line, *)
(* a byte that ends the section is put after it, and takeEsc reads it with *)
(* the bytes and the escapes of that section.                              *)
(***************************************************************************)
MaxTextLen == 3

TextBytes == {"a", "\\", ",", " ", "=", "\"", "\n"}

\* The sections of escaped text: the bytes that takeEsc takes, the bytes
\* that are escaped, and the bytes that can follow the text.
EscapeContexts ==
    { [name |-> "measurement", chars |-> measurementChars, escapes |-> measurementEscapes,
       ends |-> {",", " "}],
      [name |-> "tag key", chars |-> tagKeyChars, escapes |-> tagKeyEscapes, ends |-> {"="}],
      [name |-> "tag value", chars |-> tagValChars, escapes |-> tagValEscapes,
       ends |-> {",", " "}],
      [name |-> "field key", chars |-> fieldKeyChars, escapes |-> fieldKeyEscapes,
       ends |-> {"="}],
      [name |-> "string", chars |-> fieldStringValChars, escapes |-> fieldStringValEscapes,
       ends |-> {"\""}] }

EscInit ==
    /\ tok = NewTokenizerWithBytes(<<>>)
    /\ input = [data |-> <<>>, valid |-> FALSE, pts |-> <<>>]
    /\ last = noCall
    /\ entry = 0
    /\ tagsRead = 0
    /\ fieldsRead = 0
    /\ failed = FALSE
    /\ parseFailed = FALSE
    /\ errPos = -1
    /\ entryPos = -1
    /\ enc = newEncoder
    /\ encLog = noEncCall
    /\ penc = NewEncoder
    /\ pencLog = noWrite
    /\ run = noRun
    /\ trip = noTrip
    /\ cmp = noCmp
    /\ conv = noConv
    /\ step = noStep
    /\ off = noOff

\* A text that the encoder accepts for its section is escaped and read back,
\* from the bytes or from a reader of them.
EscapeAndTake ==
    /\ trip.section = "none"
    /\ \E c \in EscapeContexts :
       \E text \in SeqsUpTo(TextBytes, MaxTextLen) :
       \E end \in c.ends :
       \E escaped \in {appendEscaped(c.escapes, text)} :
       \E t \in LineTokenizers(escaped \o <<end>>) :
       \E r \in {takeEsc(t, c.chars, c.escapes)} :
         /\ c.name = "string" \/ validMeasurementOrKey(text)
         /\ trip' = [section |-> c.name, text |-> text, escaped |-> escaped,
                     read |-> view(r.t, r.s)]
         /\ UNCHANGED <<tok, input, last, entry, tagsRead, fieldsRead, failed,
                        parseFailed, errPos, entryPos, enc, encLog, penc, pencLog, run,
                        cmp, conv, step, off>>

EscNext == EscapeAndTake

EscSpec == EscInit /\ [][EscNext]_vars

(***************************************************************************)
(* Properties.                                                             *)
(***************************************************************************)
RECURSIVE lfFrom(_, _)
\* The position of the first LF of data at or after position p, or -1.
lfFrom(data, p) ==
    IF p >= Len(data) THEN -1
    ELSE IF data[p + 1] = "\n" THEN p
    ELSE lfFrom(data, p + 1)

\* The tokenizer holds the whole input (NewTokenizerWithBytes).
wholeSlice == tok.rd.final = "none"

(***************************************************************************)
(* C1: when the line of the current entry has a syntax error (one that a   *)
(* section method returned, or one that Next itself came upon while        *)
(* skipping the rest of the entry, at input position errAt), the following *)
(* Next resumes after the LF that ends that line, or returns false if no   *)
(* LF follows.                                                             *)
(***************************************************************************)
C1_NextResumesAfterErrorLine ==
    (last.op = "Next" /\ last.errAt >= 0) =>
      IF lfFrom(input.data, last.errAt) >= 0
      THEN last.pos > lfFrom(input.data, last.errAt)
      ELSE ~last.ok

(***************************************************************************)
(* C2: with a whole-slice tokenizer, a Next that follows a Next that       *)
(* returned true (at input position prevPos) returns with at least one     *)
(* further byte consumed.                                                  *)
(***************************************************************************)
C2_NextConsumes ==
    (wholeSlice /\ last.op = "Next" /\ last.prevPos >= 0) => last.pos > last.prevPos

\* The section methods.
SectionOps == {"Measurement", "NextTag", "NextFieldBytes", "NextField", "TimeBytes"}

\* The latest call returned the null result.
nullResult ==
    /\ last.key = NilBytes
    /\ last.val = NilBytes
    /\ last.kind = Unknown
    /\ last.v = NoValue

\* What the latest call, a section method on an entry that says point P,
\* is to return.
exposes(P) ==
    /\ last.err = NoErr
    /\ last.op = "Measurement" =>
         IF last.sec0 = MeasurementSection
         THEN last.key = P.m /\ last.val = NilBytes
         ELSE nullResult
    /\ last.op = "NextTag" =>
         IF last.sec0 <= TagSection /\ last.tags0 < Len(P.tags)
         THEN /\ last.key = P.tags[last.tags0 + 1].key
              /\ last.val = P.tags[last.tags0 + 1].val
         ELSE nullResult
    /\ last.op \in {"NextFieldBytes", "NextField"} =>
         IF last.sec0 <= FieldSection /\ last.fields0 < Len(P.fields)
         THEN /\ last.key = P.fields[last.fields0 + 1].key
              /\ last.kind = P.fields[last.fields0 + 1].kind
              /\ last.val = P.fields[last.fields0 + 1].val
              /\ last.op = "NextField" =>
                   last.v = [kind |-> last.kind, data |-> last.val]
         ELSE nullResult
    /\ last.op = "TimeBytes" =>
         IF last.sec0 <= TimeSection
         THEN last.key = NilBytes /\ last.val = P.time
         ELSE nullResult

(***************************************************************************)
(* C3: for an input of n valid points, Next returns true exactly n times   *)
(* and then false, and every section method called on the i-th entry       *)
(* returns what the i-th point says, in order.                             *)
(***************************************************************************)
C3_EntriesInOrder ==
    input.valid =>
      /\ last.op = "Next" => (last.ok <=> last.entry0 < Len(input.pts))
      /\ (last.op \in SectionOps /\ entryPos >= 0) => exposes(input.pts[last.entry0])

(***************************************************************************)
(* C6: once a section method has returned a syntax error for an entry,     *)
(* every later section method called before the next Next returns the null *)
(* result with a nil error and consumes no input.                          *)
(***************************************************************************)
C6_OneErrorPerEntry ==
    (last.op \in SectionOps /\ last.failed0) =>
      /\ nullResult
      /\ last.err = NoErr
      /\ last.pos = last.pos0
      /\ last.sec = last.sec0

\* C6's case: TimeBytes called after a syntax error, with text left on the line.
C6_Witness ==
    /\ last.op = "TimeBytes"
    /\ last.failed0
    /\ last.pos < Len(input.data)
    /\ input.data[last.pos + 1] # "\n"

(***************************************************************************)
(* C7: once NextField has failed to parse a field's value, the later       *)
(* NextField and TimeBytes calls before the next Next return the null      *)
(* result without an error.                                                *)
(***************************************************************************)
C7_ParseErrorAbandonsEntry ==
    (last.op \in {"NextField", "TimeBytes"} /\ last.parseFailed0) =>
      nullResult /\ last.err = NoErr

(***************************************************************************)
(* C8: when NextField fails to parse a value, its error is the sentinel    *)
(* ErrValueOutOfRange (for errors.Is) exactly when the value is out of     *)
(* range.                                                                  *)
(***************************************************************************)
C8_OutOfRangeIsSentinel ==
    (last.op = "NextField" /\ last.perr # NoErr) =>
      (errorsIs(last.err, ErrValueOutOfRange) <=> last.perr = ErrValueOutOfRange)

(***************************************************************************)
(* C9: the slices a call has taken still hold, when the call returns, the  *)
(* bytes they held when they were taken.                                   *)
(***************************************************************************)
C9_SlicesKeepTheirBytes ==
    last.op \in SectionOps => (last.key = last.key0 /\ last.val = last.val0)

RECURSIVE blankFrom(_, _, _)
\* From position p on (in a comment or not), data has only blank and comment lines.
blankFrom(data, p, comment) ==
    IF p >= Len(data) THEN TRUE
    ELSE IF data[p + 1] = "\n" THEN blankFrom(data, p + 1, FALSE)
    ELSE IF comment \/ data[p + 1] \in {" ", "\t", "\r", "\f"} THEN blankFrom(data, p + 1, comment)
    ELSE IF data[p + 1] = "#" THEN blankFrom(data, p + 1, TRUE)
    ELSE FALSE

method(sec, t) ==
    CASE sec = MeasurementSection -> Measurement(t)
      [] sec = TagSection -> NextTag(t)
      [] sec = FieldSection -> NextFieldBytes(t)
      [] OTHER -> TimeBytes(t)

RECURSIVE readUpTo(_, _)
(***************************************************************************)
(* A client reads the sections before section, in order, and discards what *)
(* they return: Measurement, NextTag until it returns a nil key,           *)
(* NextFieldBytes until it returns a nil key, TimeBytes; it stops at the   *)
(* first error.  (The calls are those of consumeSection, made here with    *)
(* skipping off.)                                                          *)
(***************************************************************************)
readUpTo(t, section) ==
    IF t.section >= section THEN [t |-> t, err |-> NoErr]
    ELSE With(consumeSection(t), LAMBDA c :
           IF c.err # NoErr THEN c ELSE readUpTo(c.t, section))

\* What a section method's result r shows to the caller.
returned(r) ==
    [key |-> view(r.t, r.key), kind |-> r.kind, val |-> view(r.t, r.val), err |-> r.err]

\* Next has just returned true.
afterNext == last.op = "Next" /\ last.ok

(***************************************************************************)
(* C4: right after Next, for each section whose earlier sections have no   *)
(* syntax error, the section's method called directly returns the same     *)
(* result (bytes, kind, error) as when the client has read the earlier     *)
(* sections first.                                                         *)
(***************************************************************************)
C4_SkippingSameResult ==
    afterNext =>
      \A sec \in MeasurementSection..TimeSection :
        readUpTo(tok, sec).err = NoErr =>
          returned(method(sec, tok)) = returned(method(sec, readUpTo(tok, sec).t))

\* C4's case: NextTag, called directly after Next, returns an unescaped tag
\* value, the measurement having been skipped.
C4_Witness ==
    /\ afterNext
    /\ NextTag(tok).err = NoErr
    /\ NextTag(tok).val.esc
    /\ input.data[last.pos + 1] = "a"

(***************************************************************************)
(* C5: right after Next, for each section with a syntax error in an        *)
(* earlier section, the section's method called directly returns that      *)
(* error, the one the client meets when reading the sections in order, and *)
(* no result.                                                              *)
(***************************************************************************)
C5_SkippingSameError ==
    afterNext =>
      \A sec \in TagSection..TimeSection :
        readUpTo(tok, sec).err # NoErr =>
          returned(method(sec, tok)) =
            [key |-> NilBytes, kind |-> Unknown, val |-> NilBytes,
             err |-> readUpTo(tok, sec).err]

\* The source of the tokenizer ends with an error that is not io.EOF.
errorFinal(t) == t.rd.final \in {"err", "dataerr"}

\* The tokenizer t as it would be had its source ended with io.EOF where it
\* ended with the error.
eofTwin(t) ==
    [t EXCEPT !.rd.final = IF @ = "err" THEN "eof" ELSE IF @ = "dataerr" THEN "dataeof" ELSE @,
              !.err = NoErr]

\* The section method of sec on t returns what it returns on t's twin, and
\* leaves t as it leaves the twin but for the stored error.
sameAsTwin(sec, t) ==
    With(method(sec, t), LAMBDA r :
      With(method(sec, eofTwin(t)), LAMBDA w :
        /\ eofTwin(r.t) = w.t
        /\ r.key = w.key /\ r.kind = w.kind /\ r.val = w.val /\ r.err = w.err))

\* Next on t returns what it returns on t's twin.
nextSameAsTwin(t) ==
    With(TokenizerNext(t), LAMBDA r :
      With(TokenizerNext(eofTwin(t)), LAMBDA w : eofTwin(r.t) = w.t /\ r.ok = w.ok))

(***************************************************************************)
(* C11: Err is the error of the source exactly when a Read has returned an *)
(* error that is not io.EOF (it is nil for a whole-slice tokenizer and     *)
(* after io.EOF); no Read is made after a Read that returned an error;     *)
(* every method tokenizes as it does when the source ends with io.EOF      *)
(* instead of the error; and Next returns false only when every byte of    *)
(* the input has been delivered and consumed.                              *)
(***************************************************************************)
C11_ReadErrorKept ==
    /\ Err(tok) = IF errorFinal(tok) /\ tok.complete THEN someError ELSE NoErr
    /\ tok.rd.errs <= 1
    /\ tok.complete <=> (wholeSlice \/ tok.rd.errs = 1)
    /\ errorFinal(tok) =>
         /\ nextSameAsTwin(tok)
         /\ \A sec \in MeasurementSection..TimeSection : sameAsTwin(sec, tok)
    /\ (last.op = "Next" /\ ~last.ok) => last.pos = Len(input.data)

\* C11's case: the last bytes came together with the error, a tag was read
\* from them, and Next has returned false with the error kept.
C11_Witness ==
    /\ tok.rd.final = "dataerr"
    /\ Err(tok) = someError
    /\ last.op = "Next"
    /\ ~last.ok
    /\ last.entry0 > 0

(***************************************************************************)
(* C12: no field call yields a field of kind Unknown (there is no lax mode *)
(* to switch on); a field call that finds a value of no recognized type    *)
(* fails with 'field value has unrecognized type'.                         *)
(***************************************************************************)
C12_UnknownTypeRejected ==
    /\ (last.op = "NextFieldBytes" /\ last.key # NilBytes) => last.kind # Unknown
    /\ (last.op = "NextField" /\ last.perr # NoErr
          /\ last.perr.text[1] = "cannot parse value %q with unknown kind")
         => last.err.text[1] = "field value has unrecognized type"

\* The byte before input position p is a comma that no backslash escapes.
commaBefore(p) ==
    /\ p >= 1
    /\ input.data[p] = ","
    /\ (p = 1 \/ input.data[p - 1] # "\\")

\* The latest call returned a syntax error with the message msg.
failedWith(msg) == last.err # NoErr /\ last.err.text[1] = msg

(***************************************************************************)
(* C13: Measurement and NextTag return 'expected tag key after comma'      *)
(* exactly when the comma they have consumed, after the measurement or the *)
(* tag value, is followed by whitespace or by the end of the input; and    *)
(* NextTag, called where the field-separating space follows the            *)
(* measurement directly, returns no tag and no error and moves to the      *)
(* field section.                                                          *)
(***************************************************************************)
C13_CommaNeedsTagKey ==
    /\ failedWith("expected tag key after comma; got end of input")
         => commaBefore(last.pos) /\ last.pos = Len(input.data)
    /\ failedWith("expected tag key after comma; got white space instead")
         => /\ commaBefore(last.pos)
            /\ last.pos < Len(input.data)
            /\ get(whitespace, input.data[last.pos + 1])
    /\ (last.op \in {"Measurement", "NextTag"} /\ last.err = NoErr /\ last.key0 # NilBytes)
         => ~(/\ commaBefore(last.pos)
              /\ (last.pos = Len(input.data) \/ get(whitespace, input.data[last.pos + 1])))
    /\ (/\ last.op = "NextTag"
        /\ last.sec0 = TagSection
        /\ last.pos0 < Len(input.data)
        /\ get(fieldSeparatorSpace, input.data[last.pos0 + 1]))
         => nullResult /\ last.err = NoErr /\ last.sec = FieldSection

\* C13's case: NextTag has consumed the comma after a tag value and found a
\* space after it.
C13_Witness ==
    /\ last.op = "NextTag"
    /\ last.sec0 = TagSection
    /\ last.tags0 = 0
    /\ last.pos > last.pos0 + 1
    /\ failedWith("expected tag key after comma; got white space instead")

\* A comment begins at input position i (a '#' that begins the input or
\* follows an LF) and has at position j a CR that is not followed by LF.
strayCRInComment(i, j) ==
    /\ input.data[i + 1] = "#"
    /\ (i = 0 \/ input.data[i] = "\n")
    /\ i < j
    /\ input.data[j + 1] = "\r"
    /\ \A k \in i..j : input.data[k + 1] # "\n"
    /\ (j + 1 = Len(input.data) \/ input.data[j + 2] # "\n")

(***************************************************************************)
(* C14: Next never passes over a comment line with a CR that is not the    *)
(* one right before its LF: the line is left to be an entry, for           *)
(* Measurement to report 'invalid character found in comment line'.        *)
(***************************************************************************)
C14_CRInCommentRejected ==
    last.op = "Next" =>
      ~\E i \in last.pos0..(last.pos - 1) :
         \E j \in i..(last.pos - 1) : strayCRInComment(i, j)

\* At input position p is a CR that no LF follows.
bareCRAt(p) ==
    /\ p < Len(input.data)
    /\ input.data[p + 1] = "\r"
    /\ (p + 1 = Len(input.data) \/ input.data[p + 2] # "\n")

standsAt(P, p) ==
    /\ p + Len(P.text) <= Len(input.data)
    /\ SubSeq(input.data, p + 1, p + Len(P.text)) = P.text

\* The string value of the point P's first field holds an LF.
hasLFInString(P) ==
    /\ P.fields[1].kind = String
    /\ \E i \in 1..Len(P.fields[1].val) : P.fields[1].val[i] = "\n"

(***************************************************************************)
(* C16: for input made of valid points, with LF inside string values, the  *)
(* k-th Next that returns true stands at the first byte of the k-th point, *)
(* and Next returns false after the last point, whatever sections were     *)
(* read or skipped in between; and a field read from a point has the bytes *)
(* of the point's field, LF included, as its value.                        *)
(***************************************************************************)
C16_LFInsideString ==
    /\ (input.valid /\ last.op = "Next") =>
         IF last.entry0 < Len(input.pts)
         THEN last.ok /\ standsAt(input.pts[last.entry0 + 1], last.pos)
         ELSE ~last.ok
    /\ (/\ input.valid
        /\ last.op \in {"NextFieldBytes", "NextField"}
        /\ last.key0 # NilBytes)
         => /\ last.err = NoErr
            /\ last.fields0 < Len(input.pts[last.entry0].fields)
            /\ last.kind = input.pts[last.entry0].fields[last.fields0 + 1].kind
            /\ last.val = input.pts[last.entry0].fields[last.fields0 + 1].val

\* C16's case: Next returns true at the point that follows a point with an
\* LF inside its string value, whose fields were not read.
C16_Witness ==
    /\ input.valid
    /\ last.op = "Next"
    /\ last.ok
    /\ last.entry0 = 1
    /\ last.fields0 = 0
    /\ hasLFInString(input.pts[1])

\* C16's other case: the string value with the LF inside it has been read.
C16_WitnessRead ==
    /\ input.valid
    /\ last.op = "NextFieldBytes"
    /\ last.val = <<"\n">>

\* The latest call is TimeBytes or Time on an entry, not failed so far, of a
\* valid input, and the point of the entry has no timestamp.
noTimestampCall ==
    /\ last.op \in {"TimeBytes", "Time"}
    /\ input.valid
    /\ entryPos >= 0
    /\ ~last.failed0
    /\ input.pts[last.entry0].time = NilBytes

(***************************************************************************)
(* C17: for an entry with no timestamp, TimeBytes returns nil and no       *)
(* error, and Time returns no error and the default time rounded down to a *)
(* multiple of the precision's duration.                                   *)
(***************************************************************************)
C17_NoTimestamp ==
    noTimestampCall =>
      /\ last.err = NoErr
      /\ last.op = "TimeBytes" => last.val = NilBytes
      /\ last.op = "Time" =>
           /\ last.tm.ns <= last.defaultTime.ns
           /\ last.tm.ns > last.defaultTime.ns - Duration(last.prec)
           /\ last.tm.ns % Duration(last.prec) = 0

\* C17's case: Time is called on an entry with no timestamp before its
\* fields are read, and the default time is not a multiple of the duration.
C17_Witness ==
    /\ noTimestampCall
    /\ last.op = "Time"
    /\ last.sec0 <= FieldSection
    /\ last.err = NoErr
    /\ last.tm.ns < 0

\* The tags that the input, a text of tags only, holds.
tagsOnly == (CHOOSE x \in TagTexts : x.text = input.data).tags

\* The latest call was made on a tokenizer created at the tag section over
\* a text of tags only, of which only section methods have been called.
onTagsOnly ==
    /\ input.data \in {x.text : x \in TagTexts}
    /\ last.entry0 = 0
    /\ last.sec0 \in {TagSection, FieldSection}

(***************************************************************************)
(* C18: on a tokenizer created at the tag section over a text that holds   *)
(* only tags, NextTag returns each tag in order with no error; the last    *)
(* tag, whose value is followed by the end of the input, is returned too   *)
(* and leaves the tokenizer at the field section, where NextTag returns    *)
(* nil, nil, nil and NextField returns the error 'expected field key but   *)
(* none found'.                                                            *)
(***************************************************************************)
C18_TagsOnly ==
    onTagsOnly =>
      /\ (last.op = "NextTag" /\ last.sec0 = TagSection) =>
           /\ last.err = NoErr
           /\ last.tags0 < Len(tagsOnly)
           /\ last.key = tagsOnly[last.tags0 + 1].key
           /\ last.val = tagsOnly[last.tags0 + 1].val
           /\ last.sec = IF last.tags0 + 1 = Len(tagsOnly) THEN FieldSection
                                                           ELSE TagSection
      /\ (last.op = "NextTag" /\ last.sec0 = FieldSection) =>
           /\ last.tags0 = Len(tagsOnly)
           /\ nullResult
           /\ last.err = NoErr
           /\ last.sec = FieldSection
      /\ (last.op \in {"NextField", "NextFieldBytes"} /\ last.sec0 = FieldSection) =>
           /\ nullResult
           /\ failedWith("expected field key but none found")

\* C18's case: all the tags of a text of three tags have been returned, and
\* NextField is called.
C18_Witness ==
    /\ onTagsOnly
    /\ last.op = "NextField"
    /\ last.sec0 = FieldSection
    /\ last.tags0 = 3
    /\ last.err # NoErr

\* C18's case: the last tag of a text of three tags is returned.
C18_WitnessLastTag ==
    /\ onTagsOnly
    /\ last.op = "NextTag"
    /\ last.tags0 = 2
    /\ last.key = <<"d">>
    /\ last.sec = FieldSection

\* The section that a method reads.
sectionOf(op) ==
    CASE op = "Measurement" -> MeasurementSection
      [] op = "NextTag" -> TagSection
      [] op \in {"NextFieldBytes", "NextField"} -> FieldSection
      [] op \in {"TimeBytes", "Time"} -> TimeSection

(***************************************************************************)
(* C19: a section method called when the tokenizer has passed its section  *)
(* already (Measurement after NextTag, NextTag after NextFieldBytes)       *)
(* returns the null result and no error, and leaves the tokenizer as it    *)
(* was: its read position, its section and its buffer.  (Time returns the  *)
(* default time there, its null result being that of TimeBytes.)           *)
(***************************************************************************)
C19_PassedSectionUnchanged ==
    [][\A op \in SectionOps \cup {"Time"} :
         (last'.op = op /\ tok.section > sectionOf(op)) =>
           /\ tok' = tok
           /\ last'.err = NoErr
           /\ last'.pos = last'.pos0
           /\ last'.sec = last'.sec0
           /\ op # "Time" => nullResult']_vars

\* C19's case: Measurement is called after NextTag has returned a tag of the
\* entry, and NextTag after NextFieldBytes has returned a field that is not
\* the last.
C19_Witness ==
    /\ entryPos >= 0
    /\ ~last.failed0
    /\ nullResult
    /\ last.err = NoErr
    /\ \/ last.op = "Measurement" /\ last.sec0 = TagSection /\ last.tags0 >= 1
       \/ last.op = "NextTag" /\ last.sec0 = FieldSection /\ last.fields0 >= 1

\* The bytes of a tag and of a field in a line.
tagBytes(tag) ==
    <<",">> \o appendEscaped({",", "=", " "}, tag.key) \o <<"=">>
            \o appendEscaped({",", "=", " "}, tag.val)

fieldBytes(f) ==
    appendEscaped({",", "=", " "}, f.key) \o <<"=">> \o f.val.data
      \o (IF f.val.kind = IntKind THEN <<"i">> ELSE <<>>)

RECURSIVE joinBytes(_, _, _)
joinBytes(items, F(_), sep) ==
    IF items = <<>> THEN <<>>
    ELSE F(Head(items)) \o (IF Tail(items) = <<>> THEN <<>> ELSE sep)
           \o joinBytes(Tail(items), F, sep)

\* The line of a point: measurement, tags, a space, fields, and a space and
\* the timestamp where there is one.
lineBytes(p) ==
    appendEscaped({",", " "}, p.name) \o joinBytes(p.tags, tagBytes, <<>>) \o <<" ">>
      \o joinBytes(p.fields, fieldBytes, <<",">>)
      \o (IF p.time.zero THEN <<>>
          ELSE <<" ">> \o (IF Len(p.time.ns.mag) <= 3 * p.precision THEN <<"0">>
                           ELSE SubSeq(p.time.ns.mag, 1, Len(p.time.ns.mag) - 3 * p.precision)))

\* The lines of the points, a line feed between one and the next.
linesBytes(points) == joinBytes(points, lineBytes, <<"\n">>)

(***************************************************************************)
(* C20: when StartLine, AddTag, AddField or EndLine has failed on a line,  *)
(* Bytes() is the lines that were complete when the line was started: the  *)
(* failed line adds nothing to them, whatever is called on it afterwards,  *)
(* and they are as they were.                                              *)
(***************************************************************************)
C20_FailedLineOmitted ==
    (encLog.failed \/ enc.lineHasError) => enc.buf = linesBytes(encLog.points)

\* C20's case: EndLine has failed on the second line, which had a tag and a
\* field, and the first line is what Bytes() returns.
C20_Witness ==
    /\ encLog.op = "EndLine"
    /\ encLog.failed
    /\ Len(encLog.points) = 1
    /\ encLog.point.tags # <<>>
    /\ encLog.point.fields # <<>>
    /\ enc.buf = <<"m", "\\", " ", " ", "f", "=", "1", "i">>

\* C20's case: StartLine has failed after a line with no field.
C20_WitnessStartLine ==
    /\ encLog.op = "StartLine"
    /\ encLog.failed
    /\ enc.pointIndex = 2
    /\ enc.err.text[Len(enc.err.text)]
         = "cannot start line without adding at least one field to previous line"

\* The line that the Encoder is building has a field, and no call on it has
\* failed.
currentComplete == encLog.started /\ ~enc.lineHasError /\ encLog.point.fields # <<>>

\* The bytes of a line that is being built: the measurement and the tags,
\* and the rest of the line once it has a field.
partBytes(p) ==
    IF p.fields # <<>> THEN lineBytes(p)
    ELSE appendEscaped({",", " "}, p.name) \o joinBytes(p.tags, tagBytes, <<>>)

(***************************************************************************)
(* C21: at every point of every sequence of calls, Bytes() is complete     *)
(* lines only, each with a measurement and a field: no line that has       *)
(* failed and no line that is started and not complete is in it.           *)
(***************************************************************************)
C21_OnlyCompleteLines ==
    enc.buf = linesBytes(IF currentComplete THEN Append(encLog.points, encLog.point)
                                            ELSE encLog.points)

(***************************************************************************)
(* C21, as the Encoder has it: Bytes() is the complete lines and, unless   *)
(* the line that is being built has failed, what has been added to that    *)
(* line so far, its measurement from StartLine on; a failed line is not    *)
(* in it.                                                                  *)
(***************************************************************************)
C21_CompleteLinesAndCurrent ==
    enc.buf = IF ~encLog.started \/ enc.lineHasError THEN linesBytes(encLog.points)
              ELSE linesBytes(encLog.points)
                     \o (IF encLog.points = <<>> THEN <<>> ELSE <<"\n">>)
                     \o partBytes(encLog.point)

\* C21's case: StartLine has begun a second line, which has no field yet,
\* after a complete line (TestEncoderErrorOmitsLine: "m1 f=1i\nm2").
C21_Witness ==
    /\ encLog.op = "StartLine"
    /\ ~encLog.failed
    /\ Len(encLog.points) = 1
    /\ encLog.point.fields = <<>>
    /\ enc.buf = <<"m", "\\", " ", " ", "f", "=", "1", "i", "\n", "m", "\\", " ">>

(***************************************************************************)
(* C22: after an error on a line, AddTag, AddField and EndLine on that     *)
(* line change neither Bytes() nor Err(); a StartLine that follows begins  *)
(* a line that is encoded as any other; and Err() is the first error since *)
(* the last ClearErr, which alone removes it.                              *)
(***************************************************************************)
C22_ErrorIsSticky ==
    [][/\ (enc.lineHasError /\ encLog'.op \in {"AddTag", "AddField", "EndLine"})
            => (enc'.buf = enc.buf /\ enc'.err = enc.err)
       /\ (enc.lineHasError /\ encLog'.op = "StartLine"
             /\ validMeasurementOrKey(encLog'.point.name))
            => /\ ~enc'.lineHasError
               /\ enc'.buf = enc.buf \o (IF enc.buf = <<>> THEN <<>> ELSE <<"\n">>)
                                     \o appendEscaped({",", " "}, encLog'.point.name)
       /\ (enc.err # NoErr /\ encLog'.op # "ClearErr") => enc'.err = enc.err
       /\ encLog'.op = "ClearErr" => enc'.err = NoErr]_vars

\* C22's case: a call on a line that has failed before has been ignored.
C22_Witness ==
    /\ encLog.op = "AddField"
    /\ enc.lineHasError
    /\ ~encLog.failed
    /\ enc.section = TagSection
    /\ enc.err # NoErr

\* C22's case: the second line has been started after the first has failed,
\* and the error of the first is still there.
C22_WitnessStartLine ==
    /\ encLog.op = "StartLine"
    /\ ~enc.lineHasError
    /\ enc.pointIndex = 2
    /\ encLog.points = <<>>
    /\ enc.err # NoErr
    /\ enc.buf # <<>>

\* The key a is before the key b in byte order, for the one-byte keys of the
\* tags that are added.
keyBefore(a, b) == <<a, b>> \in {<<<<"a">>, <<"b">>>>}

\* The format of the error err, whatever point it is tagged with.
formatOf(err) ==
    IF err.text[1] = "encoding point %d: %v" THEN err.text[3] ELSE err.text[1]

(***************************************************************************)
(* C23: AddTag on a line that has a tag already succeeds only if its key   *)
(* is strictly greater in byte order than the key of the tag before it, an *)
(* equal key being rejected, with SetLax as without; otherwise it records  *)
(* a "tag key ... out of order (previous key ...)" error and the line is   *)
(* rolled back.                                                            *)
(***************************************************************************)
C23_TagOrder ==
    [][(encLog'.op = "AddTag" /\ ~enc.lineHasError /\ enc.section = TagSection
          /\ encLog.point.tags # <<>>)
         => With(encLog.point.tags[Len(encLog.point.tags)].key, LAMBDA prev :
              IF keyBefore(prev, encLog'.arg)
              THEN /\ ~enc'.lineHasError
                   /\ Len(enc'.buf) > Len(enc.buf)
                   /\ SubSeq(enc'.buf, 1, Len(enc.buf) + 3) = enc.buf \o <<",">> \o encLog'.arg \o <<"=">>
              ELSE /\ enc'.lineHasError
                   /\ enc'.buf = linesBytes(encLog.points)
                   /\ enc.err = NoErr
                        => /\ formatOf(enc'.err) = "tag key %q out of order (previous key %q)"
                           /\ SubSeq(enc'.err.text, Len(enc'.err.text) - 1, Len(enc'.err.text))
                                = encLog'.arg \o prev)]_vars

\* C23's case: with SetLax, a tag has been rejected whose key is the key of
\* the tag before it.
C23_Witness ==
    /\ encLog.op = "AddTag"
    /\ encLog.failed
    /\ enc.lax
    /\ encLog.point.tags # <<>>
    /\ encLog.arg = encLog.point.tags[Len(encLog.point.tags)].key
    /\ formatOf(enc.err) = "tag key %q out of order (previous key %q)"

\* C23's case: without SetLax, the tag b has been added after the tag a.
C23_WitnessInOrder ==
    /\ encLog.op = "AddTag"
    /\ ~encLog.failed
    /\ ~enc.lax
    /\ Len(encLog.point.tags) = 2
    /\ enc.prevTagKey = <<"b">>

\* The call has recorded an error of the format f, or has left the error that
\* there was, and Bytes() has no more than the complete lines.
rejected(f) ==
    /\ enc'.lineHasError
    /\ enc'.err # NoErr
    /\ enc.err = NoErr => formatOf(enc'.err) = f
    /\ enc.err # NoErr => enc'.err = enc.err
    /\ enc'.buf = linesBytes(encLog.points)

(***************************************************************************)
(* C24: the Encoder takes StartLine, then AddTag calls, then one AddField  *)
(* or more, then EndLine if any.  AddTag or AddField before any StartLine, *)
(* AddTag after an AddField, EndLine on a line with no field and StartLine *)
(* on a line with no field each record an error and add nothing to         *)
(* Bytes().                                                                *)
(***************************************************************************)
C24_CallOrder ==
    [][/\ (~encLog.started /\ ~enc.lineHasError /\ encLog'.op = "AddTag")
            => rejected("tag must be added after adding a measurement and before adding fields")
       /\ (~encLog.started /\ ~enc.lineHasError /\ encLog'.op = "AddField")
            => rejected("field must be added after tag or measurement section")
       /\ (encLog.started /\ ~enc.lineHasError /\ encLog.point.fields # <<>>
             /\ encLog'.op = "AddTag")
            => rejected("tag must be added after adding a measurement and before adding fields")
       /\ (encLog.started /\ ~enc.lineHasError /\ encLog.point.fields = <<>>
             /\ encLog'.op = "EndLine")
            => rejected("timestamp must be added after adding at least one field")
       /\ (encLog.started /\ ~enc.lineHasError /\ encLog.point.fields = <<>>
             /\ encLog'.op = "StartLine")
            => rejected("cannot start line without adding at least one field to previous line")]_vars

\* C24's case: AddTag has been called after AddField, on the second line.
C24_Witness ==
    /\ encLog.op = "AddTag"
    /\ encLog.failed
    /\ encLog.point.fields # <<>>
    /\ Len(encLog.points) = 1
    /\ enc.err.text = <<"encoding point %d: %v", "1",
                        "tag must be added after adding a measurement and before adding fields">>

\* C24's case: AddField has been called on the new Encoder.
C24_WitnessNoLine ==
    /\ encLog.op = "AddField"
    /\ encLog.failed
    /\ ~encLog.started
    /\ enc.err.text = <<"field must be added after tag or measurement section">>

\* C24's case: EndLine has been called on a line with a tag and no field.
C24_WitnessEndLine ==
    /\ encLog.op = "EndLine"
    /\ encLog.failed
    /\ encLog.point.tags # <<>>
    /\ encLog.point.fields = <<>>
    /\ enc.err.text = <<"timestamp must be added after adding at least one field">>

\* The number that the digits d are, for a number that is small.
RECURSIVE natOf(_)
natOf(d) == IF d = <<>> THEN 0 ELSE 10 * natOf(SubSeq(d, 1, Len(d) - 1)) + digitVal(d[Len(d)])

\* The digits u are the whole number of units of the precision p in the
\* nanoseconds n: n divided by the tick of p, the fraction discarded.
isUnits(u, n, p) ==
    IF Len(n) <= 9 THEN u = itoa(natOf(n) \div Duration(p))
    ELSE Len(n) = Len(u) + 3 * p /\ SubSeq(n, 1, Len(u)) = u

\* The units of the nanoseconds n in the precision p are more than an int64
\* holds.
unitsOutOfRange(n, p) == Len(n) - 3 * p > 19

(***************************************************************************)
(* C25: EndLine on a line with a field appends no timestamp for the zero   *)
(* time; for another time it appends a space and the whole number of units *)
(* of the precision that is set when EndLine is called, the fraction       *)
(* discarded; and when that number is out of range it records an           *)
(* out-of-range error and rolls the line back.                             *)
(***************************************************************************)
C25_EndLineTimestamp ==
    [][(encLog'.op = "EndLine" /\ ~enc.lineHasError /\ enc.section = FieldSection)
         => With(encLog'.arg, LAMBDA t :
              IF t.zero THEN ~enc'.lineHasError /\ enc'.buf = enc.buf
              ELSE IF unitsOutOfRange(t.ns.mag, enc.precision)
              THEN /\ enc'.lineHasError
                   /\ enc'.buf = linesBytes(encLog.points)
                   /\ enc.err = NoErr
                        => formatOf(enc'.err) = "timestamp %s: line-protocol value out of range"
              ELSE /\ ~enc'.lineHasError
                   /\ Len(enc'.buf) > Len(enc.buf) + 1
                   /\ SubSeq(enc'.buf, 1, Len(enc.buf) + 1) = enc.buf \o <<" ">>
                   /\ isUnits(SubSeq(enc'.buf, Len(enc.buf) + 2, Len(enc'.buf)),
                              t.ns.mag, enc.precision))]_vars

\* C25's case: EndLine has written 1999 nanoseconds as 1 microsecond, the
\* precision having been set after StartLine.
C25_Witness ==
    /\ encLog.op = "EndLine"
    /\ ~encLog.failed
    /\ enc.precision = Microsecond
    /\ encLog.arg = [zero |-> FALSE, ns |-> [neg |-> FALSE, mag |-> <<"1", "9", "9", "9">>]]
    /\ enc.buf = <<"m", "\\", " ", " ", "f", "=", "1", "i", " ", "1">>

\* C25's case: EndLine has failed with a time that is out of range.
C25_WitnessOutOfRange ==
    /\ encLog.op = "EndLine"
    /\ encLog.failed
    /\ enc.precision = Nanosecond
    /\ formatOf(enc.err) = "timestamp %s: line-protocol value out of range"
    /\ enc.buf = <<>>

\* C25's case: EndLine has written no timestamp for the zero time.
C25_WitnessZero ==
    /\ encLog.op = "EndLine"
    /\ ~encLog.failed
    /\ ~enc.lineHasError
    /\ encLog.arg = noTime
    /\ enc.buf = <<"m", "\\", " ", " ", "f", "=", "1", "i">>

\* The header of the point p: its measurement, its tags that can be encoded
\* and a space.
pointHeader(p) ==
    p.name \o joinBytes(SelectSeq(p.tags, LAMBDA t : ~badTag(t.key, t.val)), tagBytes, <<>>)
           \o <<" ">>

\* The fields of the point p that can be encoded, as they are written.
pointPairs(p) ==
    [i \in 1..Len(SelectSeq(p.fields, LAMBDA f : f.key # <<>>)) |->
       fieldBytes(SelectSeq(p.fields, LAMBDA f : f.key # <<>>)[i])]

pointFooter(p) == <<" ">> \o p.ts \o <<"\n">>

\* The lines of the pairs from the pair i on, a line ending after each pair
\* whose index is in cuts and after the last.
RECURSIVE splitLines(_, _, _, _, _)
splitLines(h, pairs, f, cuts, i) ==
    IF i > Len(pairs) THEN <<>>
    ELSE (IF i = 1 \/ (i - 1) \in cuts THEN h ELSE <<",">>) \o pairs[i]
           \o (IF i = Len(pairs) \/ i \in cuts THEN f ELSE <<>>)
           \o splitLines(h, pairs, f, cuts, i + 1)

\* The lengths of the lines of out, the line feed of each counted.
lineLengths(out) ==
    With({i \in 1..Len(out) : out[i] = "\n"}, LAMBDA ends :
      {i - (CHOOSE j \in ends \cup {0} : j < i /\ \A k \in ends : k < i => k <= j) : i \in ends})

\* The latest call is a Write with a maximum line size that has succeeded.
wroteWithMaximum == pencLog.op = "Write" /\ pencLog.err = NoErr /\ penc.maxLineBytes > 0

(***************************************************************************)
(* C26: with a maximum line size M > 0, a Write that succeeds writes the   *)
(* point as one line or more, each the same header, a run of the fields    *)
(* with commas between them, and the same footer; the runs are the fields  *)
(* that can be encoded, in their order, each once; and no line is longer   *)
(* than M bytes.                                                           *)
(***************************************************************************)
C26_SplitLines ==
    wroteWithMaximum
      => /\ \E cuts \in SUBSET (1..(Len(pointPairs(pencLog.point)) - 1)) :
              pencLog.out = splitLines(pointHeader(pencLog.point), pointPairs(pencLog.point),
                                       pointFooter(pencLog.point), cuts, 1)
         /\ \A n \in lineLengths(pencLog.out) : n <= penc.maxLineBytes

\* The part of C26 that is about the lines and not about their length.
C26_LinesOfFields ==
    wroteWithMaximum
      => \E cuts \in SUBSET (1..(Len(pointPairs(pencLog.point)) - 1)) :
           pencLog.out = splitLines(pointHeader(pencLog.point), pointPairs(pencLog.point),
                                    pointFooter(pencLog.point), cuts, 1)

\* The sum of the lengths of the pairs a to b.
RECURSIVE sumLen(_, _, _)
sumLen(pairs, a, b) == IF a > b THEN 0 ELSE Len(pairs[a]) + sumLen(pairs, a + 1, b)

\* The first pair of the line that ends with the pair c.
runStart(cuts, c) == 1 + (CHOOSE j \in cuts \cup {0} : j < c /\ \A k \in cuts : k < c => k <= j)

(***************************************************************************)
(* C28: Write packs the fields greedily: a field starts a new line only    *)
(* when the line before, with a comma and the field added to it, would be  *)
(* longer than the maximum.  Four fields of 8 bytes with a header of 4     *)
(* bytes, a footer of 21 bytes and a maximum of 43 are two lines of two    *)
(* fields.                                                                 *)
(***************************************************************************)
C28_GreedyPacking ==
    wroteWithMaximum
      => With([h |-> pointHeader(pencLog.point), pairs |-> pointPairs(pencLog.point),
               f |-> pointFooter(pencLog.point)], LAMBDA p :
           \E cuts \in SUBSET (1..(Len(p.pairs) - 1)) :
             /\ pencLog.out = splitLines(p.h, p.pairs, p.f, cuts, 1)
             /\ \A c \in cuts :
                  Len(p.h) + sumLen(p.pairs, runStart(cuts, c), c + 1)
                    + (c + 1 - runStart(cuts, c)) + Len(p.f) > penc.maxLineBytes)

\* The example of C28, as the code writes it: three lines.
C28_ExampleInThreeLines ==
    /\ pencLog.op = "Write"
    /\ pencLog.err = NoErr
    /\ penc.maxLineBytes = 43
    /\ pencLog.point.tags = <<>>
    /\ pencLog.point.fields = SubSeq(TestFields, 1, 4)
    /\ \E cuts \in {{2, 3}} :
         pencLog.out = splitLines(pointHeader(pencLog.point), pointPairs(pencLog.point),
                                  pointFooter(pencLog.point), cuts, 1)

(***************************************************************************)
(* C27: when a field does not fit on a line by itself, the header, the     *)
(* field and the footer being longer than the maximum, Write of a point    *)
(* that has no other error returns ErrNeedMoreSpace, and what it has       *)
(* written is complete lines, each with its footer.                        *)
(***************************************************************************)
C27_NeedMoreSpace ==
    (/\ pencLog.op = "Write"
     /\ penc.maxLineBytes > 0
     /\ pencLog.point.name # <<>>
     /\ penc.failOnFieldError
          => /\ \A i \in 1..Len(pencLog.point.tags) : pencLog.point.tags[i].val # <<>>
             /\ \A i \in 1..Len(pencLog.point.fields) : pencLog.point.fields[i].key # <<>>
     /\ \E i \in 1..Len(pointPairs(pencLog.point)) :
          Len(pointHeader(pencLog.point)) + Len(pointPairs(pencLog.point)[i])
            + Len(pointFooter(pencLog.point)) > penc.maxLineBytes)
      => /\ pencLog.err = ErrNeedMoreSpace
         /\ \E m \in 0..Len(pointPairs(pencLog.point)) :
            \E cuts \in SUBSET (1..(m - 1)) :
              pencLog.out = splitLines(pointHeader(pencLog.point),
                                       SubSeq(pointPairs(pencLog.point), 1, m),
                                       pointFooter(pencLog.point), cuts, 1)

\* C27's case: the second field does not fit on a line, and the line of the
\* first is written with its footer.
C27_Witness ==
    /\ pencLog.op = "Write"
    /\ pencLog.err = ErrNeedMoreSpace
    /\ penc.maxLineBytes = 34
    /\ pencLog.out = <<"c", "p", "u", " ", "a", "b", "c", "=", "1", "2", "3", "i">>
                       \o pointFooter(pencLog.point)

\* C27's case: the first field does not fit on a line, and nothing is written.
C27_WitnessFirstField ==
    /\ pencLog.op = "Write"
    /\ pencLog.err = ErrNeedMoreSpace
    /\ penc.maxLineBytes = 32
    /\ Len(pencLog.point.fields) = 2
    /\ pencLog.out = <<>>

(***************************************************************************)
(* C29: the verify tool reports failure, a status that is not 0, if and    *)
(* only if a section call has returned an error for some entry: input of   *)
(* which every entry is read without error gives the status 0.             *)
(***************************************************************************)
C29_FailureIffError ==
    run.op # "none"
      => /\ run.status # 0 <=> run.logged > 0
         /\ input.valid => run.status = 0

\* C29 for verifyLines alone.
C29_VerifyLinesFailureIffError ==
    run.op = "verifyLines"
      => /\ run.status # 0 <=> run.logged > 0
         /\ input.valid => run.status = 0

\* C29's case: lpverify has exited with the status 1 on valid input, no error
\* printed.
C29_LpverifyFailsOnValidInput ==
    /\ run.op = "lpverify"
    /\ input.valid
    /\ input.pts # <<>>
    /\ run.logged = 0
    /\ run.status = 1

\* C29's case: verifyLines has gone on after an error and has found another.
C29_VerifyLinesGoesOn ==
    /\ run.op = "verifyLines"
    /\ run.logged >= 2
    /\ run.status = 1

(***************************************************************************)
(* C30: a measurement, a tag key, a tag value or a field key that the      *)
(* encoder accepts, or a string field value, that is escaped with the      *)
(* escaper of its section and then read by takeEsc with the escapes of     *)
(* that section, up to a byte that ends the section, is read as it was: a  *)
(* text with a backslash before a byte that is escaped too.                *)
(***************************************************************************)
C30_EscapeRoundTrip == trip.section # "none" => trip.read = trip.text

\* C30's case: a tag value with a backslash before a comma has been escaped
\* and read back.
C30_Witness ==
    /\ trip.section = "tag value"
    /\ trip.text = <<"\\", ",", "a">>
    /\ trip.escaped = <<"\\", "\\", ",", "a">>
    /\ trip.read = trip.text

(***************************************************************************)
(* Values made by NewValue, and Value.Equal.  A Value is its two fields:   *)
(* number, the 64 bits as 16 hexadecimal digits, and bytes, a slice: at is *)
(* the array it points into (one of the sentinels, or the heap) and data   *)
(* its bytes.  A float64 is its sign, its biased exponent and the 13       *)
(* hexadecimal digits of its fraction; a Go value is its dynamic type and  *)
(* what it holds: n an integer, b a bool, s the bytes of a string, f a     *)
(* float64.                                                                *)
(***************************************************************************)
HexDigits ==
    <<"0", "1", "2", "3", "4", "5", "6", "7", "8", "9", "A", "B", "C", "D", "E", "F">>

\* n in w hexadecimal digits.
RECURSIVE hex(_, _)
hex(n, w) == IF w = 0 THEN <<>> ELSE hex(n \div 16, w - 1) \o <<HexDigits[(n % 16) + 1]>>

\* uint64(x) of an int64 x of small magnitude: the two's complement of a negative x.
uint64OfInt(x) ==
    IF x >= 0 THEN hex(x, 16) ELSE [i \in 1..12 |-> "F"] \o hex(65536 + x, 4)

zeroFraction == [i \in 1..13 |-> "0"]

\* math.Float64bits: the sign bit, the 11 bits of the exponent, the 52 of the fraction.
Float64bits(x) == hex((IF x.neg THEN 2048 ELSE 0) + x.exp, 3) \o x.frac

IsInf(x) == x.exp = 2047 /\ x.frac = zeroFraction

IsNaN(x) == x.exp = 2047 /\ x.frac # zeroFraction

\* x == y of two float64: a NaN equals nothing, the two zeros equal each other.
floatEq(x, y) ==
    /\ ~IsNaN(x)
    /\ ~IsNaN(y)
    /\ \/ x = y
       \/ /\ x.exp = 0 /\ x.frac = zeroFraction
          /\ y.exp = 0 /\ y.frac = zeroFraction

intSentinel == [at |-> "intSentinel", data |-> <<"i">>]

uintSentinel == [at |-> "uintSentinel", data |-> <<"u">>]

floatSentinel == [at |-> "floatSentinel", data |-> <<"f">>]

boolSentinel == [at |-> "boolSentinel", data |-> <<"b">>]

\* Value{}.
zeroValue == [number |-> hex(0, 16), bytes |-> [at |-> "nil", data |-> <<>>]]

\* NewValue returns a new Value holding the value of x.
NewValue(x) ==
    CASE x.type = "int64" ->
           [v |-> [number |-> uint64OfInt(x.n), bytes |-> intSentinel], ok |-> TRUE]
      [] x.type = "uint64" ->
           [v |-> [number |-> hex(x.n, 16), bytes |-> uintSentinel], ok |-> TRUE]
      [] x.type = "float64" ->
           IF IsInf(x.f) \/ IsNaN(x.f) THEN [v |-> zeroValue, ok |-> FALSE]
           ELSE [v |-> [number |-> Float64bits(x.f), bytes |-> floatSentinel], ok |-> TRUE]
      [] x.type = "bool" ->
           [v |-> [number |-> hex(IF x.b THEN 1 ELSE 0, 16), bytes |-> boolSentinel],
            ok |-> TRUE]
      [] x.type = "string" ->
           [v |-> [number |-> hex(0, 16), bytes |-> [at |-> "heap", data |-> x.s]],
            ok |-> TRUE]
      [] OTHER -> [v |-> zeroValue, ok |-> FALSE]

\* Value.Kind: the sentinel that bytes points at tells the kind.
Kind(v) ==
    IF Len(v.bytes.data) # 1 THEN String
    ELSE CASE v.bytes.at = "intSentinel" -> IntKind
           [] v.bytes.at = "uintSentinel" -> Uint
           [] v.bytes.at = "floatSentinel" -> Float
           [] v.bytes.at = "boolSentinel" -> Bool
           [] OTHER -> String

\* Value.Equal.
Equal(v1, v2) ==
    Kind(v1) = Kind(v2) /\ v1.number = v2.number /\ v1.bytes.data = v2.bytes.data

(***************************************************************************)
(* The comparison of values as a state machine: two Go values are given to *)
(* NewValue and the values made are compared.  The Go values are those of  *)
(* the tests of NewValue and of Equal.                                     *)
(***************************************************************************)
goValue(type) ==
    [type |-> type, n |-> 0, b |-> FALSE, s |-> <<>>,
     f |-> [neg |-> FALSE, exp |-> 0, frac |-> zeroFraction]]

int64(n) == [goValue("int64") EXCEPT !.n = n]

uint64(n) == [goValue("uint64") EXCEPT !.n = n]

bool(b) == [goValue("bool") EXCEPT !.b = b]

string(s) == [goValue("string") EXCEPT !.s = s]

float64(neg, exp, frac) ==
    [goValue("float64") EXCEPT !.f = [neg |-> neg, exp |-> exp, frac |-> frac]]

GoValues ==
    {int64(0), int64(12345), int64(-1), uint64(0), uint64(43323), bool(TRUE), bool(FALSE),
     string(<<"i">>), string(<<>>), string(<<"h", "e", "l", "l", "o">>),
     float64(FALSE, 0, zeroFraction), float64(TRUE, 0, zeroFraction),
     float64(FALSE, 1019, <<"9", "9", "9", "9", "9", "9", "9", "9", "9", "9", "9", "9", "A">>),
     float64(FALSE, 1020, <<"9", "9", "9", "9", "9", "9", "9", "9", "9", "9", "9", "9", "A">>),
     float64(FALSE, 1033, <<"3", "4", "A", "0", "0", "0", "0", "0", "0", "0", "0", "0", "0">>),
     float64(TRUE, 1033, <<"3", "4", "A", "0", "0", "0", "0", "0", "0", "0", "0", "0", "0">>),
     float64(FALSE, 2047, zeroFraction),
     float64(FALSE, 2047, <<"8", "0", "0", "0", "0", "0", "0", "0", "0", "0", "0", "0", "1">>),
     goValue("*int")}

ValInit ==
    /\ tok = NewTokenizerWithBytes(<<>>)
    /\ input = [data |-> <<>>, valid |-> FALSE, pts |-> <<>>]
    /\ last = noCall
    /\ entry = 0
    /\ tagsRead = 0
    /\ fieldsRead = 0
    /\ failed = FALSE
    /\ parseFailed = FALSE
    /\ errPos = -1
    /\ entryPos = -1
    /\ enc = newEncoder
    /\ encLog = noEncCall
    /\ penc = NewEncoder
    /\ pencLog = noWrite
    /\ run = noRun
    /\ trip = noTrip
    /\ cmp = noCmp
    /\ conv = noConv
    /\ step = noStep
    /\ off = noOff

\* NewValue fails for one of the two Go values: there is nothing to compare.
CallNewValue ==
    /\ cmp.op = "none"
    /\ \E x1 \in GoValues :
       \E x2 \in GoValues :
       \E n1 \in {NewValue(x1)} :
       \E n2 \in {NewValue(x2)} :
         /\ ~(n1.ok /\ n2.ok)
         /\ cmp' = [op |-> "NewValue", x1 |-> x1, x2 |-> x2, v1 |-> n1.v, v2 |-> n2.v,
                    equal |-> FALSE]
         /\ UNCHANGED <<tok, input, last, entry, tagsRead, fieldsRead, failed,
                        parseFailed, errPos, entryPos, enc, encLog, penc, pencLog, run,
                        trip, conv, step, off>>

\* MustNewValue(x1).Equal(MustNewValue(x2)).
CallEqual ==
    /\ cmp.op = "none"
    /\ \E x1 \in GoValues :
       \E x2 \in GoValues :
       \E n1 \in {NewValue(x1)} :
       \E n2 \in {NewValue(x2)} :
       \E eq \in {Equal(n1.v, n2.v)} :
         /\ n1.ok
         /\ n2.ok
         /\ cmp' = [op |-> "Equal", x1 |-> x1, x2 |-> x2, v1 |-> n1.v, v2 |-> n2.v,
                    equal |-> eq]
         /\ UNCHANGED <<tok, input, last, entry, tagsRead, fieldsRead, failed,
                        parseFailed, errPos, entryPos, enc, encLog, penc, pencLog, run,
                        trip, conv, step, off>>

ValNext ==
    \/ CallNewValue
    \/ CallEqual

ValSpec == ValInit /\ [][ValNext]_vars

(***************************************************************************)
(* C31.  Two Float values that are equal as numbers are Equal, whatever    *)
(* their bits: the positive and the negative zero are Equal.               *)
(***************************************************************************)
C31_NumericallyEqualFloats ==
    /\ cmp.op = "Equal"
    /\ cmp.x1.type = "float64"
    /\ cmp.x2.type = "float64"
    /\ floatEq(cmp.x1.f, cmp.x2.f)
    => cmp.equal

\* Two Float values are Equal exactly when they have the same bits.
C31_EqualFloatsHaveSameBits ==
    /\ cmp.op = "Equal"
    /\ cmp.x1.type = "float64"
    /\ cmp.x2.type = "float64"
    => (cmp.equal <=> cmp.v1.number = cmp.v2.number)

\* The test "DifferentZeros": the two zeros are compared and are not Equal.
C31_DifferentZeros ==
    /\ cmp.op = "Equal"
    /\ cmp.x1 = float64(FALSE, 0, zeroFraction)
    /\ cmp.x2 = float64(TRUE, 0, zeroFraction)
    /\ ~cmp.equal

(***************************************************************************)
(* The conversion of timestamps as a state machine: asNanoseconds is given *)
(* an int64 and a precision.  The integers are those around which a        *)
(* product passes the ends of the 64 bits: the greatest and the least      *)
(* int64, their quotients by each duration and the next integers, the      *)
(* quotients of 2^64 by each duration, 2^62, and some small ones.          *)
(***************************************************************************)
Int64s ==
    {[neg |-> FALSE, mag |-> <<"0">>],
     [neg |-> FALSE, mag |-> <<"1">>],
     [neg |-> TRUE, mag |-> <<"1">>],
     [neg |-> FALSE, mag |-> <<"2">>],
     [neg |-> TRUE, mag |-> <<"2">>],
     [neg |-> FALSE, mag |-> <<"1", "0", "0", "0">>],
     [neg |-> FALSE, mag |-> <<"1", "9", "9", "9">>],
     [neg |-> FALSE, mag |-> <<"1", "6", "0", "2", "8", "4", "1", "6", "0", "5", "8", "2", "2", "7", "9", "1", "5", "0", "6">>],
     [neg |-> FALSE, mag |-> <<"9", "2", "2", "3", "3", "7", "2", "0", "3", "6", "8", "5", "4", "7", "7", "5", "8", "0", "7">>],
     [neg |-> TRUE, mag |-> <<"9", "2", "2", "3", "3", "7", "2", "0", "3", "6", "8", "5", "4", "7", "7", "5", "8", "0", "8">>],
     [neg |-> TRUE, mag |-> <<"9", "2", "2", "3", "3", "7", "2", "0", "3", "6", "8", "5", "4", "7", "7", "5", "8", "0", "7">>],
     [neg |-> FALSE, mag |-> <<"9", "2", "2", "3", "3", "7", "2", "0", "3", "6", "8", "5", "4", "7", "7", "5">>],
     [neg |-> FALSE, mag |-> <<"9", "2", "2", "3", "3", "7", "2", "0", "3", "6", "8", "5", "4", "7", "7", "6">>],
     [neg |-> TRUE, mag |-> <<"9", "2", "2", "3", "3", "7", "2", "0", "3", "6", "8", "5", "4", "7", "7", "5">>],
     [neg |-> TRUE, mag |-> <<"9", "2", "2", "3", "3", "7", "2", "0", "3", "6", "8", "5", "4", "7", "7", "6">>],
     [neg |-> FALSE, mag |-> <<"1", "8", "4", "4", "6", "7", "4", "4", "0", "7", "3", "7", "0", "9", "5", "5", "2">>],
     [neg |-> TRUE, mag |-> <<"1", "8", "4", "4", "6", "7", "4", "4", "0", "7", "3", "7", "0", "9", "5", "5", "2">>],
     [neg |-> FALSE, mag |-> <<"9", "2", "2", "3", "3", "7", "2", "0", "3", "6", "8", "5", "4">>],
     [neg |-> FALSE, mag |-> <<"9", "2", "2", "3", "3", "7", "2", "0", "3", "6", "8", "5", "5">>],
     [neg |-> TRUE, mag |-> <<"9", "2", "2", "3", "3", "7", "2", "0", "3", "6", "8", "5", "4">>],
     [neg |-> TRUE, mag |-> <<"9", "2", "2", "3", "3", "7", "2", "0", "3", "6", "8", "5", "5">>],
     [neg |-> FALSE, mag |-> <<"1", "8", "4", "4", "6", "7", "4", "4", "0", "7", "3", "7", "1", "0">>],
     [neg |-> TRUE, mag |-> <<"1", "8", "4", "4", "6", "7", "4", "4", "0", "7", "3", "7", "1", "0">>],
     [neg |-> FALSE, mag |-> <<"9", "2", "2", "3", "3", "7", "2", "0", "3", "6">>],
     [neg |-> FALSE, mag |-> <<"9", "2", "2", "3", "3", "7", "2", "0", "3", "7">>],
     [neg |-> TRUE, mag |-> <<"9", "2", "2", "3", "3", "7", "2", "0", "3", "6">>],
     [neg |-> TRUE, mag |-> <<"9", "2", "2", "3", "3", "7", "2", "0", "3", "7">>],
     [neg |-> FALSE, mag |-> <<"1", "8", "4", "4", "6", "7", "4", "4", "0", "7", "4">>],
     [neg |-> TRUE, mag |-> <<"1", "8", "4", "4", "6", "7", "4", "4", "0", "7", "4">>],
     [neg |-> FALSE, mag |-> <<"4", "6", "1", "1", "6", "8", "6", "0", "1", "8", "4", "2", "7", "3", "8", "7", "9", "0", "4">>],
     [neg |-> TRUE, mag |-> <<"4", "6", "1", "1", "6", "8", "6", "0", "1", "8", "4", "2", "7", "3", "8", "7", "9", "0", "4">>],
     [neg |-> FALSE, mag |-> <<"4", "6", "1", "1", "6", "8", "6", "0", "1", "8", "4", "2", "7", "3", "8", "7", "9", "0", "3">>]}

Precisions == {Nanosecond, Microsecond, Millisecond, Second}

NsInit ==
    /\ tok = NewTokenizerWithBytes(<<>>)
    /\ input = [data |-> <<>>, valid |-> FALSE, pts |-> <<>>]
    /\ last = noCall
    /\ entry = 0
    /\ tagsRead = 0
    /\ fieldsRead = 0
    /\ failed = FALSE
    /\ parseFailed = FALSE
    /\ errPos = -1
    /\ entryPos = -1
    /\ enc = newEncoder
    /\ encLog = noEncCall
    /\ penc = NewEncoder
    /\ pencLog = noWrite
    /\ run = noRun
    /\ trip = noTrip
    /\ cmp = noCmp
    /\ conv = noConv
    /\ step = noStep
    /\ off = noOff

\* p.asNanoseconds(x).
CallAsNanoseconds ==
    /\ conv.op = "none"
    /\ \E x \in Int64s :
       \E p \in Precisions :
       \E r \in {asNanoseconds(x, p)} :
         /\ conv' = [op |-> "asNanoseconds", x |-> x, p |-> p, ns |-> r.ns, ok |-> r.ok]
         /\ UNCHANGED <<tok, input, last, entry, tagsRead, fieldsRead, failed,
                        parseFailed, errPos, entryPos, enc, encLog, penc, pencLog, run,
                        trip, cmp, step, off>>

NsNext == CallAsNanoseconds

NsSpec == NsInit /\ [][NsNext]_vars

\* The product of x and the duration of p, as an integer of any size.
product(x, p) ==
    With(stripZeros(x.mag \o durationZeros(p)), LAMBDA mag :
      [neg |-> x.neg /\ mag # <<"0">>, mag |-> mag])

\* n is in the range of int64.
inInt64(n) == ~gtDigits(n.mag, IF n.neg THEN MinInt64Magnitude ELSE MaxInt64)

(***************************************************************************)
(* C32.  asNanoseconds returns the product of x and the duration and true  *)
(* exactly when the product is in the range of int64, and 0 and false      *)
(* otherwise: no product that has overflowed is accepted.                  *)
(***************************************************************************)
C32_AsNanoseconds ==
    conv.op = "asNanoseconds" =>
      IF inInt64(product(conv.x, conv.p))
      THEN conv.ok /\ conv.ns = product(conv.x, conv.p)
      ELSE ~conv.ok /\ conv.ns = [neg |-> FALSE, mag |-> <<"0">>]

\* The most negative int64 in seconds: the product overflows and is refused.
C32_Witness ==
    /\ conv.op = "asNanoseconds"
    /\ conv.x = [neg |-> TRUE, mag |-> MinInt64Magnitude]
    /\ conv.p = Second
    /\ ~conv.ok

\* The greatest number of microseconds whose product is still an int64.
C32_WitnessGreatest ==
    /\ conv.op = "asNanoseconds"
    /\ conv.p = Microsecond
    /\ conv.ok
    /\ conv.ns.mag = SubSeq(MaxInt64, 1, 16) \o <<"0", "0", "0">>

\* A product that has wrapped around to a small number is refused.
C32_WitnessWrapped ==
    /\ conv.op = "asNanoseconds"
    /\ conv.p = Microsecond
    /\ ~conv.ok
    /\ mul64(conv.x, Duration(conv.p)) = [neg |-> FALSE, mag |-> <<"3", "8", "4">>]

(***************************************************************************)
(* The inside of the Tokenizer as a state machine: take, takeEsc, ensure,  *)
(* readMore and reset are called in any order on a tokenizer over a short  *)
(* input of the bytes TakeBytes, or over one of the longer inputs of the   *)
(* tests, read whole or through each kind of reader.                       *)
(***************************************************************************)
MaxTakeLen == 3

MaxSteps == 4

MaxEnsure == 3

TakeBytes == {"a", "\n", ",", "\\"}

\* "aabbcccddefga" of TestTokenizerTake, and escapes around the ends of the buffer.
LongInputs ==
    {<<"a", "a", "b", "b", "c", "c", "c", "d", "d", "e", "f", "g", "a">>,
     <<"a", "b", "a", "\\", ",", "a", "b", "\\", "\\", "=", "a">>,
     <<"a", "a", "a", "a", "a", "\\", " ", "a", "\\">>}

TakeInputs == SeqsUpTo(TakeBytes, MaxTakeLen) \cup LongInputs

\* The sets of TestTokenizerTake.
TakeSets == {newByteSet({"a", "b", "c"}), newByteSet({"d"}), invert(newByteSet({" "}))}

TakeInit ==
    \E data \in TakeInputs :
    \E t \in Tokenizers(data) :
      /\ tok = t
      /\ input = [data |-> data, valid |-> FALSE, pts |-> <<>>]
      /\ last = noCall
      /\ entry = 0
      /\ tagsRead = 0
      /\ fieldsRead = 0
      /\ failed = FALSE
      /\ parseFailed = FALSE
      /\ errPos = -1
      /\ entryPos = -1
      /\ enc = newEncoder
      /\ encLog = noEncCall
      /\ penc = NewEncoder
      /\ pencLog = noWrite
      /\ run = noRun
      /\ trip = noTrip
      /\ cmp = noCmp
      /\ conv = noConv
      /\ step = noStep
      /\ off = noOff

\* The end of a step: t is the tokenizer after it.
tokStep(op, t, set, escapes, n, got, ok) ==
    /\ step.count < MaxSteps
    /\ tok' = done(t)
    /\ step' = [op |-> op, t0 |-> tok, set |-> set, escapes |-> escapes, n |-> n,
                got |-> got, ok |-> ok, count |-> step.count + 1]
    /\ UNCHANGED <<input, last, entry, tagsRead, fieldsRead, failed, parseFailed,
                   errPos, entryPos, enc, encLog, penc, pencLog, run, trip, cmp, conv, off>>

StepTake ==
    \E set \in TakeSets :
    \E r \in {take(tok, set)} :
      tokStep("take", r.t, set, <<>>, 0, view(r.t, r.s), TRUE)

StepTakeEsc ==
    \E c \in EscapeContexts :
    \E r \in {takeEsc(tok, c.chars, c.escapes)} :
      tokStep("takeEsc", r.t, c.chars, c.escapes, 0, view(r.t, r.s), TRUE)

StepEnsure ==
    \E n \in 1..MaxEnsure :
    \E r \in {ensure(tok, n)} :
      tokStep("ensure", r.t, <<>>, <<>>, n, <<>>, r.ok)

StepReadMore ==
    \E t \in {readMore(tok)} :
      tokStep("readMore", t, <<>>, <<>>, 0, <<>>, TRUE)

StepReset ==
    \E t \in {reset(tok)} :
      tokStep("reset", t, <<>>, <<>>, 0, <<>>, TRUE)

TakeNext ==
    \/ StepTake
    \/ StepTakeEsc
    \/ StepEnsure
    \/ StepReadMore
    \/ StepReset

TakeSpec == TakeInit /\ [][TakeNext]_vars

\* How many bytes of data from the i-th on are in set, up to the first that is not.
RECURSIVE runLen(_, _, _)
runLen(data, i, set) ==
    IF i > Len(data) \/ ~get(set, data[i]) THEN 0 ELSE 1 + runLen(data, i + 1, set)

(***************************************************************************)
(* C33.  take returns the longest run of bytes in the set that starts at   *)
(* the read position in the input, and moves the read position past it,    *)
(* however the source splits the input into reads.                         *)
(***************************************************************************)
C33_TakeMaximalRun ==
    step.op = "take" =>
      With(inputPos(step.t0), LAMBDA p :
      With(runLen(input.data, p + 1, step.set), LAMBDA n :
        /\ step.got = SubSeq(input.data, p + 1, p + n)
        /\ inputPos(tok) = p + n))

\* A run longer than the buffer, read one byte at a time from a source that
\* ends with an error.
C33_Witness ==
    /\ step.op = "take"
    /\ Len(step.got) > minGrow
    /\ tok.rd.sizes = <<1>>
    /\ tok.rd.final = "err"
    /\ inputPos(tok) < Len(input.data)

\* A take that starts after bytes already taken and slides the buffer.
C33_WitnessSlide ==
    /\ step.op = "take"
    /\ step.t0.r1 > 0
    /\ step.t0.r0 > 0
    /\ tok.r0 = 0
    /\ Len(step.got) > 1

(***************************************************************************)
(* What takeEsc is to take of data from its i-th byte on: out, the bytes   *)
(* to return, and next, the index of the first byte not taken.  A          *)
(* backslash and an escapable byte after it stand for that byte; any other *)
(* backslash stands for itself.                                            *)
(***************************************************************************)
RECURSIVE unescaped(_, _, _, _)
unescaped(data, i, set, escapes) ==
    IF i > Len(data) THEN [out |-> <<>>, next |-> i]
    ELSE IF data[i] = "\\" /\ i < Len(data) /\ revTable(escapes, data[i + 1]) # NUL
    THEN With(unescaped(data, i + 2, set, escapes), LAMBDA r :
           [out |-> <<revTable(escapes, data[i + 1])>> \o r.out, next |-> r.next])
    ELSE IF data[i] = "\\" \/ get(set, data[i])
    THEN With(unescaped(data, i + 1, set, escapes), LAMBDA r :
           [out |-> <<data[i]>> \o r.out, next |-> r.next])
    ELSE [out |-> <<>>, next |-> i]

(***************************************************************************)
(* C34.  takeEsc takes the longest run of bytes of the set and of          *)
(* backslash pairs, returns it with each pair of an escapable byte         *)
(* replaced by that byte and every other backslash kept, and moves the     *)
(* read position past it, however the source splits the input into reads.  *)
(***************************************************************************)
C34_TakeEscUnescapes ==
    step.op = "takeEsc" =>
      With(inputPos(step.t0), LAMBDA p :
      With(unescaped(input.data, p + 1, step.set, step.escapes), LAMBDA u :
        /\ step.got = u.out
        /\ inputPos(tok) = u.next - 1))

\* A pair that the reads split between the backslash and the escaped byte.
C34_Witness ==
    /\ step.op = "takeEsc"
    /\ tok.rd.sizes = <<1>>
    /\ \E i \in 1..(Len(input.data) - 1) :
         /\ i > inputPos(step.t0)
         /\ i < inputPos(tok)
         /\ input.data[i] = "\\"
         /\ revTable(step.escapes, input.data[i + 1]) # NUL
    /\ Len(step.got) < inputPos(tok) - inputPos(step.t0)

\* A lone backslash at the end of the input is kept.
C34_WitnessLoneBackslash ==
    /\ step.op = "takeEsc"
    /\ Len(step.got) > 1
    /\ step.got[Len(step.got)] = "\\"
    /\ step.got[Len(step.got) - 1] # "\\"
    /\ inputPos(tok) = Len(input.data)
    /\ ~tok.rd.final = "none"

\* A backslash before a byte that is not escapable is kept, and the byte
\* after it ends the run.
C34_WitnessLiteral ==
    /\ step.op = "takeEsc"
    /\ Len(step.got) > 0
    /\ step.got[Len(step.got)] = "\\"
    /\ inputPos(tok) < Len(input.data)
    /\ ~get(step.set, input.data[inputPos(tok) + 1])

(***************************************************************************)
(* C35.  After every operation of the Tokenizer, 0 <= r0 <= r1 <= len(buf) *)
(* (and len(buf) <= cap(buf)): the read position never passes the end of   *)
(* the buffered data.                                                      *)
(***************************************************************************)
C35_BufferIndices ==
    /\ 0 <= tok.r0
    /\ tok.r0 <= tok.r1
    /\ tok.r1 <= tok.len
    /\ tok.len <= cap(tok)

\* After a call on a tokenizer over a reader, the read position is at the end
\* of a full buffer, past bytes that are still held.
C35_Witness ==
    /\ last.op # "none"
    /\ tok.rd.final # "none"
    /\ tok.r0 < tok.r1
    /\ tok.r1 = tok.len
    /\ tok.len = cap(tok)
    /\ tok.len > 0

\* Next has skipped a comment that ends the input without a newline.
C35_WitnessComment ==
    /\ last.op = "Next"
    /\ Len(input.data) > 0
    /\ input.data[Len(input.data)] # "\n"
    /\ \E i \in 1..Len(input.data) :
         /\ input.data[i] = "#"
         /\ \A j \in i..Len(input.data) : input.data[j] # "\n"
         /\ \A j \in 1..(i - 1) : input.data[j] \in {" ", "\n"}
    /\ tok.complete
    /\ tok.r1 = tok.len

(***************************************************************************)
(* C36.  ensure(n) returns true only when n bytes are buffered beyond the  *)
(* read position, false only when the data is complete and fewer than n    *)
(* bytes remain, and reads nothing once the data is complete: the source   *)
(* is not read again after a Read that has returned an error or io.EOF.    *)
(***************************************************************************)
C36_Ensure ==
    step.op = "ensure" =>
      /\ step.ok => tok.r1 + step.n <= tok.len
      /\ ~step.ok => tok.complete /\ tok.r1 + step.n > tok.len
      /\ step.t0.complete => tok.rd = step.t0.rd
      /\ tok.rd.errs <= 1

\* ensure has read more than once to get its bytes.
C36_Witness ==
    /\ step.op = "ensure"
    /\ step.ok
    /\ step.n > 1
    /\ tok.rd.pos >= step.t0.rd.pos + 2
    /\ tok.rd.sizes = <<1>>

\* ensure reads up to the end of the data and fails for want of bytes.
C36_WitnessFalse ==
    /\ step.op = "ensure"
    /\ ~step.ok
    /\ ~step.t0.complete
    /\ tok.rd.pos > step.t0.rd.pos
    /\ tok.r1 < tok.len

(***************************************************************************)
(* C37.  readMore leaves the bytes of buf[r0:] as they were, followed by   *)
(* exactly the bytes that the source has returned, and leaves r1 - r0      *)
(* unchanged, whether it slides the data to the front or grows the buffer. *)
(***************************************************************************)
C37_ReadMoreKeepsLiveBytes ==
    step.op = "readMore" =>
      /\ SubSeq(tok.mem, tok.r0 + 1, tok.len)
           = SubSeq(step.t0.mem, step.t0.r0 + 1, step.t0.len)
               \o SubSeq(input.data, step.t0.rd.pos + 1, tok.rd.pos)
      /\ tok.r1 - tok.r0 = step.t0.r1 - step.t0.r0

\* readMore slides bytes that are held and bytes still to be read, and reads more.
C37_Witness ==
    /\ step.op = "readMore"
    /\ step.t0.r0 > 0
    /\ step.t0.r1 > step.t0.r0
    /\ step.t0.len > step.t0.r1
    /\ cap(tok) = cap(step.t0)
    /\ tok.r0 = 0
    /\ tok.rd.pos > step.t0.rd.pos

\* readMore grows a buffer that holds bytes.
C37_WitnessGrow ==
    /\ step.op = "readMore"
    /\ step.t0.len > step.t0.r0
    /\ cap(tok) > cap(step.t0)
    /\ tok.rd.pos > step.t0.rd.pos

(***************************************************************************)
(* C38.  Between two calls of Next the section, as it stands when each     *)
(* public call returns, never decreases in the order Measurement < Tag <   *)
(* Field < Time < newline < end: only Next moves it back.                  *)
(***************************************************************************)
C38_SectionNeverDecreases ==
    last.op \notin {"none", "Next"} => last.sec >= last.sec0

\* A tag with a syntax error: NextTag leaves the tag section for the newline section.
C38_Witness ==
    /\ last.op = "NextTag"
    /\ last.sec0 = TagSection
    /\ last.sec = newlineSection
    /\ last.err # NoErr

\* TimeBytes called in the measurement section passes every section up to the end.
C38_WitnessToEnd ==
    /\ last.op = "TimeBytes"
    /\ last.sec0 = MeasurementSection
    /\ last.sec = endSection
    /\ last.err = NoErr

\* A section method called at the end of the entry leaves the section as it is.
C38_WitnessAtEnd ==
    /\ last.op = "Measurement"
    /\ last.sec0 = endSection
    /\ last.sec = endSection
    /\ entry > 0

(***************************************************************************)
(* The offset-based Tokenizer (tokenizer.go): one read offset r into buf.  *)
(* mem is the array under t.buf and len is len(t.buf), as above; panic     *)
(* tells that a slice expression or an allocation has panicked, after      *)
(* which nothing more happens.                                             *)
(***************************************************************************)
offTokenizerWithBytes(data) ==
    [rd |-> noReader(data), mem |-> data, len |-> Len(data), r |-> 0, complete |-> TRUE,
     err |-> NoErr, panic |-> FALSE]

offTokenizer(rd) ==
    [rd |-> rd, mem |-> <<>>, len |-> 0, r |-> 0, complete |-> FALSE, err |-> NoErr,
     panic |-> FALSE]

\* readMore, the branch that slides the data to the front: t.r is left as it is.
slideOff(t) ==
    IF t.r > t.len THEN [t EXCEPT !.panic = TRUE]
    ELSE [t EXCEPT !.mem = [i \in 1..Len(t.mem) |->
                               IF i <= t.len - t.r THEN t.mem[i + t.r] ELSE t.mem[i]],
                   !.len = t.len - t.r]

\* readMore, the size of the array that replaces one holding used bytes.
grownCapOff(t, used) ==
    IF cap(t) * 2 - used < minRead THEN used + minRead ELSE cap(t) * 2

\* readMore, the branch that allocates a larger array: t.r is left as it is.
growOff(t) ==
    IF t.r > t.len THEN [t EXCEPT !.panic = TRUE]
    ELSE [t EXCEPT !.mem = [i \in 1..grownCapOff(t, t.len - t.r) |->
                               IF i <= t.len - t.r THEN t.mem[i + t.r] ELSE NUL],
                   !.len = t.len - t.r]

\* readMore reads more data into t.buf.
readMoreOff(t) ==
    IF t.complete THEN t
    ELSE With(IF cap(t) - t.len >= minRead THEN t
              ELSE IF (cap(t) - t.len) + t.r >= minRead THEN slideOff(t) ELSE growOff(t),
              LAMBDA t1 :
                IF t1.panic THEN t1 ELSE readInto(t1, Read(t1.rd, cap(t1) - t1.len)))

\* ensure ensures that there are at least n bytes available in t.buf[t.r:].
RECURSIVE ensureOff(_, _)
ensureOff(t, n) ==
    IF t.panic THEN [t |-> t, ok |-> FALSE]
    ELSE IF t.r + n <= t.len THEN [t |-> t, ok |-> TRUE]
    ELSE IF t.complete THEN [t |-> t, ok |-> FALSE]
    ELSE ensureOff(readMoreOff(t), n)

\* The loop of take: n is how far after t.r the bytes are known to be in set.
RECURSIVE takeLoopOff(_, _, _)
takeLoopOff(t, set, n) ==
    With(ensureOff(t, n + 1), LAMBDA e :
      IF ~e.ok THEN [t |-> e.t, n |-> n]
      ELSE With(firstNotIn(e.t, set, e.t.r + n), LAMBDA i :
             IF i < e.t.len THEN [t |-> e.t, n |-> i - e.t.r]
             ELSE takeLoopOff(e.t, set, e.t.len - e.t.r)))

\* take returns the next slice of bytes within t.buf that are in the given
\* set starting at t.r + from.  It does not update t.r.
takeOff(t, set, from) ==
    With(takeLoopOff(t, set, from), LAMBDA l :
      IF l.t.panic \/ l.t.r + l.n > cap(l.t)
      THEN [t |-> [l.t EXCEPT !.panic = TRUE], got |-> <<>>]
      ELSE [t |-> l.t, got |-> SubSeq(l.t.mem, l.t.r + from + 1, l.t.r + l.n)])

\* discard advances the read offset by n bytes.
discard(t, n) ==
    IF t.r + n = t.len THEN [t EXCEPT !.len = 0, !.r = 0] ELSE [t EXCEPT !.r = @ + n]

(***************************************************************************)
(* The offset-based Tokenizer as a state machine, driven as its tests      *)
(* drive it: take is called from the end of the bytes already taken, and   *)
(* discard with a number of bytes that take has returned.                  *)
(***************************************************************************)
MaxOffLen == 5

MaxOffSteps == 4

OffBytes == {"a", "d"}

OffInputs ==
    SeqsUpTo(OffBytes, MaxOffLen)
      \cup {<<"a", "a", "b", "b", "c", "c", "c", "d", "d", "e", "f", "g", "a">>}

offTokenizers(data) ==
    {offTokenizerWithBytes(data)}
      \cup {offTokenizer(newReader(data, sz, f)) : sz \in Schedules, f \in Finals}

OffInit ==
    \E data \in OffInputs :
    \E t \in offTokenizers(data) :
      /\ tok = NewTokenizerWithBytes(<<>>)
      /\ input = [data |-> data, valid |-> FALSE, pts |-> <<>>]
      /\ last = noCall
      /\ entry = 0
      /\ tagsRead = 0
      /\ fieldsRead = 0
      /\ failed = FALSE
      /\ parseFailed = FALSE
      /\ errPos = -1
      /\ entryPos = -1
      /\ enc = newEncoder
      /\ encLog = noEncCall
      /\ penc = NewEncoder
      /\ pencLog = noWrite
      /\ run = noRun
      /\ trip = noTrip
      /\ cmp = noCmp
      /\ conv = noConv
      /\ step = noStep
      /\ off = [noOff EXCEPT !.t = t]

\* tok.take(set, from), from being the number of bytes already taken.
CallTake ==
    \E set \in TakeSets :
    \E r \in {takeOff(off.t, set, off.next)} :
      /\ off.count < MaxOffSteps
      /\ ~off.t.panic
      /\ off' = [off EXCEPT !.t = r.t, !.op = "take", !.set = set, !.from = off.next,
                            !.got = r.got, !.next = @ + Len(r.got), !.count = @ + 1]
      /\ UNCHANGED <<tok, input, last, entry, tagsRead, fieldsRead, failed, parseFailed,
                     errPos, entryPos, enc, encLog, penc, pencLog, run, trip, cmp, conv,
                     step>>

\* tok.discard(n), n bytes having been taken.
CallDiscard ==
    \E n \in 1..off.next :
    \E t \in {discard(off.t, n)} :
      /\ off.count < MaxOffSteps
      /\ ~off.t.panic
      /\ off' = [off EXCEPT !.t = t, !.op = "discard", !.pos = @ + n, !.next = @ - n,
                            !.from = n, !.count = @ + 1]
      /\ UNCHANGED <<tok, input, last, entry, tagsRead, fieldsRead, failed, parseFailed,
                     errPos, entryPos, enc, encLog, penc, pencLog, run, trip, cmp, conv,
                     step>>

OffNext ==
    \/ CallTake
    \/ CallDiscard

OffSpec == OffInit /\ [][OffNext]_vars

(***************************************************************************)
(* C39.  In the offset-based tokenizer, take(set, from) returns the        *)
(* longest run of bytes in the set that starts from bytes after the read   *)
(* position, for every read chunking and after any discards: when readMore *)
(* moves the data while the read offset is not zero, the read position     *)
(* still stands at the same byte of the input, and nothing panics.         *)
(***************************************************************************)
C39_TakeAfterDiscard ==
    off.op = "take" =>
      /\ ~off.t.panic
      /\ off.got = SubSeq(input.data, off.pos + off.from + 1,
                          off.pos + off.from
                            + runLen(input.data, off.pos + off.from + 1, off.set))

\* As long as nothing has been discarded but whole buffers, take is right.
C39_TakeAtOffsetZero ==
    (off.op = "take" /\ off.pos = 0) =>
      /\ ~off.t.panic
      /\ off.got = SubSeq(input.data, off.from + 1,
                          off.from + runLen(input.data, off.from + 1, off.set))

\* A take after a discard returns fewer bytes than the run has.
C39_WrongRun ==
    /\ off.op = "take"
    /\ off.pos > 0
    /\ ~off.t.panic
    /\ Len(off.got) < runLen(input.data, off.pos + off.from + 1, off.set)

(***************************************************************************)
(* C40.  When Write succeeds, the number it returns is the number of bytes *)
(* it has written to the writer for the point: the headers, the fields,    *)
(* the commas between them and the footers.                                *)
(***************************************************************************)
C40_WriteReturnsBytesWritten ==
    (pencLog.op = "Write" /\ pencLog.err = NoErr) => pencLog.n = Len(pencLog.out)

\* Without a maximum line size, the number returned is short of the bytes
\* written by the length of every field written.
C40_FieldsNotCounted ==
    (pencLog.op = "Write" /\ pencLog.err = NoErr /\ penc.maxLineBytes = 0)
      => pencLog.n + sumLen(pointPairs(pencLog.point), 1, Len(pointPairs(pencLog.point)))
           = Len(pencLog.out)

\* The number returned is never more than the bytes written.
C40_NeverMore ==
    (pencLog.op = "Write" /\ pencLog.err = NoErr) => pencLog.n <= Len(pencLog.out)

\* A Write of one field on one line that succeeds.
C40_OneField ==
    /\ pencLog.op = "Write"
    /\ pencLog.err = NoErr
    /\ Len(pointPairs(pencLog.point)) = 1
    /\ pencLog.n = Len(pencLog.out) - Len(pointPairs(pencLog.point)[1])

=============================================================================
